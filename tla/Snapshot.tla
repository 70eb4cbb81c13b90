------------------------------ MODULE Snapshot ------------------------------
(***************************************************************************)
(* The canonical observer (observer/snapshot.py with topology.py, drm.py,  *)
(* xrandr.py and autorandr.py).  One sample reads the event generation,    *)
(* sysfs, two xrandr answers and three autorandr answers, sysfs and the    *)
(* generation again, one after the other, while screens are plugged and    *)
(* layouts change; what it read is then turned into one observation.       *)
(*                                                                         *)
(* An output has the same name here for the kernel and for X unless        *)
(* renamed; a monitor's base EDID block is its name ("M", "N", the panel   *)
(* "P"), and a token such as "m1" stands for a mode and its position.      *)
(* One reading of sysfs, and one command, is atomic.                       *)
(***************************************************************************)
EXTENDS Naturals, FiniteSets, Mapping

CONSTANTS
    Externals,         \* the external outputs
    Monitors,          \* the external screens
    KernelName,        \* the kernel's name for an output that X names differently
    ProfileCatalogue,  \* the saved profiles, by name
    Saved,             \* the profiles the controller's own source lists
    Installed,         \* the profiles autorandr knows
    Identified,        \* the outputs whose connector id X publishes
    Preferring,        \* the outputs X marks exactly one mode preferred for
    MaxChanges,        \* bound on the changes of hardware and layout and on faults
    MaxSamples         \* bound on the samples

Panel == "eDP"
Outputs == {Panel} \cup Externals

\* How a command can fail; its answer is then empty.
CommandFaults == {"timed_out", "parse_failed", "inconsistent"}

\* A saved profile: the monitor each saved output is recognised by ("*" is any),
\* the saved mode and position, and the primary output, which is a lit one.
ParsedProfile(r) ==
    /\ r.setup \in [DOMAIN r.setup -> Monitors \cup {"P", "*"}]
    /\ DOMAIN r.config = DOMAIN r.setup
    /\ r.primary \in {s \in DOMAIN r.setup : r.config[s] /= "off"} \cup {"none"}
    /\ "none" \notin DOMAIN r.setup

ASSUME HardwareAssumption ==
    /\ Panel \notin Externals
    /\ KernelName[Panel] = Panel
    /\ \A o \in Externals : KernelName[o] \notin Outputs
    /\ Monitors \cap {"P", "*", "junk", "none", ""} = {}
    /\ Identified \subseteq Outputs /\ Preferring \subseteq Outputs

ASSUME CatalogueAssumption ==
    /\ Saved \subseteq Installed
    /\ \A p \in Installed : ParsedProfile(ProfileCatalogue[p])

ASSUME SnapshotBounds == MaxChanges \in Nat /\ MaxSamples \in Nat

VARIABLES
    plug,          \* the monitor on each external connector
    edid,          \* how much of its EDID the kernel reads
    junk,          \* the outputs whose EDID property in X is garbage
    crtc,          \* the mode and position X drives on each output
    primary,       \* X's primary output
    generation,    \* the event generation of the hotplug monitor
    step,          \* where the sample in progress is
    sample,        \* what it has read
    observation,   \* the last observation, or how the sample ended otherwise
    changes, samples,
    renamed        \* do X and the kernel name external outputs differently?

world == <<plug, edid, junk, crtc, primary, generation>>
vars == <<world, step, sample, observation, changes, samples, renamed>>

----------------------------------------------------------------------------
(* What the commands report (external).                                    *)

Connected == {Panel} \cup {o \in Externals : plug[o] /= "none"}

\* What identifies output o in X's EDID property.
Fingerprint(o) ==
    IF o = Panel THEN "P" ELSE IF o \in junk THEN "junk" ELSE plug[o]

Setup(p) == ProfileCatalogue[p].setup
Config(p) == ProfileCatalogue[p].config
ActiveOf(p) == {s \in DOMAIN Setup(p) : Config(p)[s] /= "off"}

FingerprintMatches(saved, live) == saved = "*" \/ saved = live

LiveFingerprints == [o \in Connected |-> Fingerprint(o)]

\* The ways to match profile p with outputs that have these fingerprints.
Recognised(p, fingerprints) ==
    Matchings([s \in DOMAIN Setup(p) |->
                  {o \in DOMAIN fingerprints :
                      FingerprintMatches(Setup(p)[s], fingerprints[o])}],
              DOMAIN fingerprints)

\* autorandr --detected: the profiles whose setup matches what X shows.
Detected(fingerprints) == {p \in Installed : Recognised(p, fingerprints) /= {}}

\* The layout is the saved one, with the saved outputs taken for these.
Shows(p, f) ==
    /\ \A s \in DOMAIN f : crtc[f[s]] = Config(p)[s]
    /\ \A o \in Outputs \ Range(f) : crtc[o] = "off"

\* The ways to take saved outputs for live ones.
Placements == UNION {Injection(DOMAIN Setup(p), Outputs) : p \in Installed}

\* autorandr --current: the profiles whose saved configuration is the layout.  The
\* outputs of a detected profile are identified by what they show, those of
\* another one are not.
CurrentProfiles ==
    {p \in Installed : \E f \in Placements :
        /\ DOMAIN f = DOMAIN Setup(p)
        /\ Shows(p, f)
        /\ p \in Detected(LiveFingerprints) => f \in Recognised(p, LiveFingerprints)}

\* xrandr: a disconnected output shows neither its primary mark nor its
\* geometry, only that it still holds a CRTC.
XState(unknown) ==
    LET shown == Connected \ unknown
    IN  [connected |-> shown,
         geometry |-> [o \in shown |-> crtc[o]],
         primary |-> {primary} \cap shown,
         unknown |-> unknown,
         retained |-> {o \in Outputs \ shown : crtc[o] /= "off"},
         ids |-> {}]

\* The answer of an xrandr that failed.
NoXState ==
    [connected |-> {}, geometry |-> [o \in {} |-> ""], primary |-> {},
     unknown |-> {}, retained |-> {}, ids |-> {}]

\* sysfs: status and EDID of every connector; unknown ones could not be read.
DrmState(unknown) ==
    [plug |-> [o \in Externals |-> IF o \in unknown THEN "none" ELSE plug[o]],
     edid |-> edid,
     unknown |-> unknown]

----------------------------------------------------------------------------
(* The topology (topology.py), from the last sysfs reading and xrandr.     *)

KernelConnected(d) == {Panel} \cup {o \in Externals : d.plug[o] /= "none"}

\* The connectors tied to one X output: by connector id, or by name when X
\* publishes no id.
Translated(d, x) ==
    {o \in KernelConnected(d) \cap x.connected :
        o \in x.ids \/ ~renamed \/ o = Panel}

\* The name a connector goes by: its X output's, or the kernel's.
NameOf(d, x, o) ==
    IF o \in Translated(d, x) \/ ~renamed THEN o ELSE KernelName[o]

KernelNames(d, x) == {NameOf(d, x, o) : o \in KernelConnected(d)}
KernelExternals(d, x) == {NameOf(d, x, o) : o \in KernelConnected(d) \ {Panel}}

XExternals(d, x) ==
    ((Translated(d, x) \ {Panel})
        \cup ((x.connected \ Translated(d, x)) \ {Panel})) \cap x.connected

\* The outputs with a kernel connector id and X's.
IdentifiedOutputs(d, x) == Translated(d, x) \cap x.ids

\* The base identity the kernel read, by name; "" without a valid base block.
BaseIdentity(d, x) ==
    [n \in KernelNames(d, x) |->
        IF n = Panel THEN "P"
        ELSE LET o == CHOOSE e \in KernelConnected(d) : NameOf(d, x, e) = n
             IN  IF d.edid[o] = "base_invalid" THEN "" ELSE d.plug[o]]

BaseProven(d, x) ==
    LET base == BaseIdentity(d, x) IN {n \in DOMAIN base : base[n] /= ""}

----------------------------------------------------------------------------
(* Saved outputs against live ones.                                        *)

\* Matching by autorandr's fingerprints, refused when two saved or two live
\* fingerprints are alike.
ResolveOutputMapping(p, fingerprints, connected) ==
    IF /\ DOMAIN fingerprints = connected
       /\ IsInjective(fingerprints)
       /\ IsInjective(Setup(p))
    THEN UniqueBijection(
             [s \in DOMAIN Setup(p) |->
                 {o \in connected :
                     FingerprintMatches(Setup(p)[s], fingerprints[o])}],
             connected)
    ELSE {}

\* Matching that also takes the kernel's base identity for a fingerprint.
ResolveProbeMapping(p, fingerprints, base, connected) ==
    UniqueBijection(
        [s \in DOMAIN Setup(p) |->
            {o \in connected :
                \/ /\ o \in DOMAIN fingerprints
                   /\ FingerprintMatches(Setup(p)[s], fingerprints[o])
                \/ /\ Setup(p)[s] /= "*"
                   /\ Setup(p)[s] = base[o]}],
        connected)

ProfileMatches(p, mappings) ==
    {[profile |-> p, mapping |-> f, active |-> {f[s] : s \in ActiveOf(p)}] :
        f \in mappings}

EligibleProfiles(s) ==
    UNION {ProfileMatches(p,
               ResolveOutputMapping(p, s.fingerprints, s.x.connected)) :
               p \in s.detected \cap Saved}

\* Mutant of BaseIdentityEligibility: garbage in X leaves nothing eligible.
NoBaseIdentityEligibility(s) == {}

\* Mutant of BaseIdentityEligibility: the first of several profiles is taken.
FirstBaseIdentityEligibility(s) ==
    LET names == KernelNames(s.drm, s.x)
        all == UNION {ProfileMatches(p,
                          ResolveProbeMapping(p, s.fingerprints,
                              BaseIdentity(s.drm, s.x), names)) :
                          p \in Saved}
    IN  IF names = s.x.connected /\ all /= {} THEN {CHOOSE m \in all : TRUE}
        ELSE {}

\* When no fingerprint matched: the one saved profile that covers the
\* topology by base identity.
BaseIdentityEligibility(s) ==
    LET names == KernelNames(s.drm, s.x)
        all == UNION {ProfileMatches(p,
                          ResolveProbeMapping(p, s.fingerprints,
                              BaseIdentity(s.drm, s.x), names)) :
                          p \in Saved}
    IN  IF names = s.x.connected THEN Sole(all) ELSE {}

Eligible(s) ==
    LET profiles == EligibleProfiles(s)
    IN  IF profiles /= {} THEN profiles ELSE BaseIdentityEligibility(s)

\* The outputs whose base identity profile p saves exactly once.
BaseIdentityMatches(d, x, p) ==
    LET base == BaseIdentity(d, x)
    IN  {n \in BaseProven(d, x) :
            Cardinality({s \in DOMAIN Setup(p) : Setup(p)[s] = base[n]}) = 1}

----------------------------------------------------------------------------
(* Which profile is current, exact or worth a probe.                       *)

ActiveOutputs(x) == {o \in x.connected : x.geometry[o] /= "off"}

GeometryMatchesSavedConfig(m, x) ==
    \A s \in DOMAIN m.mapping :
        /\ m.mapping[s] \in x.connected
        /\ x.geometry[m.mapping[s]] = Config(m.profile)[s]

\* Mutant of Current: a retained CRTC is overlooked.
CurrentDespiteRetained(s) ==
    IF s.current = {}
    THEN {m.profile : m \in {e \in Sole(Eligible(s)) :
                                GeometryMatchesSavedConfig(e, s.x)}}
    ELSE s.current

\* autorandr's answer, or the geometry itself when it gave none; a CRTC kept
\* by an unplugged output is part of the layout.
Current(s) ==
    IF s.current = {} /\ s.x.retained = {}
    THEN {m.profile : m \in {e \in Sole(Eligible(s)) :
                                GeometryMatchesSavedConfig(e, s.x)}}
    ELSE s.current

PrimaryMatchesSavedConfig(m, x) ==
    LET saved == ProfileCatalogue[m.profile].primary
    IN  saved = "none" \/ {m.mapping[saved]} = x.primary

\* The external outputs whose identity is proven for profile p.
ExternalsProven(d, x, p) ==
    KernelExternals(d, x) \subseteq
        BaseProven(d, x) \cap IdentifiedOutputs(d, x)
            \cap BaseIdentityMatches(d, x, p)

ExactProfile(s) ==
    {m.profile : m \in {e \in Sole(Eligible(s)) :
        /\ KernelNames(s.drm, s.x) = s.x.connected
        /\ Range(e.mapping) = s.x.connected
        /\ ActiveOutputs(s.x) = e.active
        /\ Current(s) = {e.profile}
        /\ ExternalsProven(s.drm, s.x, e.profile)
        /\ PrimaryMatchesSavedConfig(e, s.x)}}

\* A screen known by its base block alone, dark beside the lit panel.
ProbeCandidate(s) ==
    LET names == KernelNames(s.drm, s.x)
        externals == KernelExternals(s.drm, s.x)
        candidates ==
            {p \in Saved :
                /\ externals \subseteq BaseIdentityMatches(s.drm, s.x, p)
                /\ ResolveProbeMapping(p, s.fingerprints,
                       BaseIdentity(s.drm, s.x), names) /= {}}
    IN  IF /\ Eligible(s) = {}
           /\ Cardinality(externals) = 1
           /\ names = s.x.connected
           /\ XExternals(s.drm, s.x) = externals
           /\ ActiveOutputs(s.x) = {Panel}
           /\ externals \subseteq
                  BaseProven(s.drm, s.x) \cap IdentifiedOutputs(s.drm, s.x)
                      \cap Preferring
        THEN Sole(candidates)
        ELSE {}

Inconsistent(s) ==
    \/ Translated(s.drm, s.x) /= KernelConnected(s.drm)
    \/ (s.detected \cup s.current) \ Saved /= {}
    \/ KernelNames(s.drm, s.x) /= s.x.connected
    \/ DOMAIN s.fingerprints /= s.x.connected
    \/ s.drm.unknown /= {}
    \/ s.x.unknown /= {}

\* Mutant of InvalidityReason: the generations are not compared.
InvalidityByDrmOnly(s) ==
    CASE s.first /= s.drm -> "topology_changed"
      [] s.issues /= {} -> "parse_failed"
      [] Inconsistent(s) -> "inconsistent_evidence"
      [] OTHER -> "none"

InvalidityReason(s) ==
    CASE s.begin /= s.end -> "event_generation_changed"
      [] s.first /= s.drm -> "topology_changed"
      [] "timed_out" \in s.issues -> "command_timed_out"
      [] "inconsistent" \in s.issues -> "inconsistent_evidence"
      [] "parse_failed" \in s.issues -> "parse_failed"
      [] "torn" \in s.issues -> "topology_changed"
      [] Inconsistent(s) -> "inconsistent_evidence"
      [] OTHER -> "none"

Facts(s) ==
    LET reason == InvalidityReason(s)
    IN  [reason |-> reason,
         kernel |-> KernelNames(s.drm, s.x),
         kernelExternal |-> KernelExternals(s.drm, s.x),
         x |-> s.x,
         xExternal |-> XExternals(s.drm, s.x),
         fingerprinted |-> DOMAIN s.fingerprints,
         detected |-> s.detected,
         drm |-> s.drm,
         eligible |-> Eligible(s),
         current |-> Current(s),
         exact |-> IF reason = "none" THEN ExactProfile(s) ELSE {},
         probe |-> IF reason = "none" THEN ProbeCandidate(s) ELSE {},
         hashed |-> {},
         undetected |-> s.undetected,
         moved |-> s.moved]

----------------------------------------------------------------------------
(* What CanonicalObservation demands of a valid sample when it is built.   *)

ExactIsConsistent(f) ==
    \A p \in f.exact :
        /\ p \in f.current
        /\ \E m \in f.eligible :
              /\ m.profile = p
              /\ f.kernel = f.x.connected
              /\ Range(m.mapping) = f.kernel
              /\ m.active = ActiveOutputs(f.x)
        /\ f.kernelExternal \cup f.xExternal \subseteq
               BaseProven(f.drm, f.x) \cap IdentifiedOutputs(f.drm, f.x)
                   \cap BaseIdentityMatches(f.drm, f.x, p)

ProbeIsConsistent(f) ==
    \A p \in f.probe :
        /\ f.eligible = {}
        /\ f.kernelExternal = f.xExternal
        /\ Cardinality(f.xExternal) = 1
        /\ f.kernel = f.x.connected
        /\ ActiveOutputs(f.x) = f.x.connected \ f.xExternal
        /\ f.kernelExternal \subseteq
               IdentifiedOutputs(f.drm, f.x)
                   \cap BaseIdentityMatches(f.drm, f.x, p)

ValidateConsistentSample(f) ==
    /\ f.kernelExternal \subseteq f.kernel
    /\ f.xExternal \subseteq f.x.connected
    /\ IdentifiedOutputs(f.drm, f.x) \subseteq f.kernel \cup f.x.connected
    /\ f.fingerprinted \subseteq f.x.connected
    /\ \A m, n \in f.eligible : m.profile = n.profile => m = n
    /\ \A m \in f.eligible : Range(m.mapping) \subseteq f.x.connected
    /\ ExactIsConsistent(f)
    /\ ProbeIsConsistent(f)

----------------------------------------------------------------------------
(* One sample.                                                             *)

NoSample ==
    [begin |-> 0, end |-> 0,
     first |-> [plug |-> [o \in Externals |-> "none"],
                edid |-> [o \in Externals |-> "complete"], unknown |-> {}],
     drm |-> [plug |-> [o \in Externals |-> "none"],
              edid |-> [o \in Externals |-> "complete"], unknown |-> {}],
     x |-> NoXState, fingerprints |-> [o \in {} |-> ""],
     detected |-> {}, current |-> {}, issues |-> {},
     undetected |-> {},  \* history: those of current that were not detected
     moved |-> FALSE]    \* history: did the layout change meanwhile?

Reads(at, next) == step = at /\ step' = next /\ UNCHANGED world

\* The outputs whose state a reading fails to give.
UnknownOutputs == {{}} \cup {{o} : o \in Externals}

Spends(fault) ==
    IF fault THEN changes < MaxChanges /\ changes' = changes + 1 ELSE UNCHANGED changes

\* A command that fails leaves its answer empty and its issue in the sample.
CommandFails(at, next) ==
    /\ Reads(at, next)
    /\ \E fault \in CommandFaults : sample' = [sample EXCEPT !.issues = @ \cup {fault}]
    /\ Spends(TRUE)

Reading(at, next, unknown, answer) ==
    /\ Reads(at, next)
    /\ sample' = answer
    /\ Spends(unknown /= {})

Answers(at, next, answer) ==
    Reading(at, next, {}, answer)

BeginGeneration ==
    /\ samples < MaxSamples
    /\ samples' = samples + 1
    /\ Answers("idle", "begin_drm", [NoSample EXCEPT !.begin = generation])
    /\ UNCHANGED observation

BeginDrm ==
    \E unknown \in UnknownOutputs :
        Reading("begin_drm", "query", unknown,
                [sample EXCEPT !.first = DrmState(unknown)])

XrandrQuery ==
    \/ \E unknown \in UnknownOutputs :
           Reading("query", "properties", unknown, [sample EXCEPT !.x = XState(unknown)])
    \/ CommandFails("query", "properties")

\* The second answer adds connector ids, and must agree with the first.
XrandrProperties ==
    \/ \E unknown \in UnknownOutputs :
           LET x == XState(unknown)
               torn == \/ x.connected /= sample.x.connected
                       \/ x.unknown /= sample.x.unknown
                       \/ x.geometry /= sample.x.geometry
                       \/ x.primary /= sample.x.primary
           IN  Reading("properties", "fingerprint", unknown,
                       [sample EXCEPT !.x.ids = Identified,
                                      !.issues = IF torn THEN @ \cup {"torn"}
                                                 ELSE @])
    \/ CommandFails("properties", "fingerprint")

AutorandrFingerprint ==
    \/ Answers("fingerprint", "detected",
               [sample EXCEPT !.fingerprints = LiveFingerprints])
    \/ CommandFails("fingerprint", "detected")

AutorandrDetected ==
    \/ Answers("detected", "current",
               [sample EXCEPT !.detected = Detected(LiveFingerprints)])
    \/ CommandFails("detected", "current")

AutorandrCurrent ==
    \/ LET current == CurrentProfiles
       IN  Answers("current", "end_drm",
                   [sample EXCEPT !.current = current,
                                  !.undetected = current \ Detected(LiveFingerprints)])
    \/ CommandFails("current", "end_drm")

EndDrm ==
    \E unknown \in UnknownOutputs :
        Reading("end_drm", "publish", unknown, [sample EXCEPT !.drm = DrmState(unknown)])

\* An eligible profile whose desktop files cannot be read stays eligible
\* without their hashes; files that changed since end the sample.
AttachPlanningConfiguration(f) ==
    {[f EXCEPT !.hashed = {m.profile : m \in f.eligible} \ unreadable] :
        unreadable \in SUBSET {m.profile : m \in f.eligible}}
    \cup {[reason |-> "raised_changed"] : m \in f.eligible}

\* The end generation, the derivation and the construction of the record.
Publish ==
    LET f == Facts([sample EXCEPT !.end = generation])
        built == IF f.reason = "none" THEN AttachPlanningConfiguration(f)
                 ELSE {f}
    IN  /\ Reads("publish", "idle")
        /\ \E o \in built :
              observation' =
                  IF o.reason = "none" /\ ~ValidateConsistentSample(o)
                  THEN [reason |-> "raised_inconsistent"] ELSE o
        /\ sample' = NoSample

SampleStep ==
    \/ BeginGeneration
    \/ /\ BeginDrm \/ XrandrQuery \/ XrandrProperties \/ AutorandrFingerprint
          \/ AutorandrDetected \/ AutorandrCurrent \/ EndDrm
       /\ UNCHANGED <<observation, samples>>
    \/ Publish /\ UNCHANGED <<changes, samples>>

----------------------------------------------------------------------------
(* The world (external).                                                   *)

\* After the last sample nothing reads the world any more.
Changes ==
    /\ changes < MaxChanges
    /\ samples < MaxSamples \/ step /= "idle"
    /\ changes' = changes + 1
    /\ UNCHANGED <<step, observation, samples>>

\* A screen is plugged in or pulled out; the event comes with it.
Replug(o) ==
    /\ Changes
    /\ \E m \in (Monitors \cup {"none"}) \ {plug[o]}, garbage \in BOOLEAN :
          /\ plug' = [plug EXCEPT ![o] = m]
          /\ m = "none" => ~garbage
          /\ junk' = IF garbage THEN junk \cup {o} ELSE junk \ {o}
          /\ \E q \in IF m = "none" THEN {"complete"}
                      ELSE {"complete", "extensions", "base_invalid"} :
                edid' = [edid EXCEPT ![o] = q]
    /\ generation' = generation + 1
    /\ UNCHANGED <<crtc, primary, sample>>

\* What X shows changes, its copy of an EDID included, and no event tells.
LayoutMoves == sample' = [sample EXCEPT !.moved = step /= "idle"]

\* A monitor's EDID comes and goes without an event.
Flap(o) ==
    /\ Changes
    /\ plug[o] /= "none"
    /\ \E q \in {"complete", "extensions", "base_invalid"}, garbage \in BOOLEAN :
          /\ edid' = [edid EXCEPT ![o] = q]
          /\ junk' = IF garbage THEN junk \cup {o} ELSE junk \ {o}
    /\ IF junk' = junk THEN UNCHANGED sample ELSE LayoutMoves
    /\ UNCHANGED <<plug, crtc, primary, generation>>

\* A saved profile is loaded on the screens that are there.
LoadProfile(p) ==
    /\ Changes
    /\ LayoutMoves
    /\ \E f \in Recognised(p, [o \in Connected |-> IF o = Panel THEN "P" ELSE plug[o]]) :
          /\ crtc' = [o \in Outputs |->
                         IF o \in Range(f)
                         THEN Config(p)[CHOOSE s \in DOMAIN f : f[s] = o]
                         ELSE "off"]
          /\ primary' = IF ProfileCatalogue[p].primary = "none" THEN primary
                        ELSE f[ProfileCatalogue[p].primary]
    /\ UNCHANGED <<plug, edid, junk, generation>>

\* A desktop service moves the primary mark, or lights a dark screen.
ServiceMoves(o) ==
    /\ Changes
    /\ LayoutMoves
    /\ \/ primary' = o /\ UNCHANGED crtc
       \/ /\ o \in Connected /\ crtc[o] = "off"
          /\ crtc' = [crtc EXCEPT ![o] = "preferred"]
          /\ UNCHANGED primary
    /\ UNCHANGED <<plug, edid, junk, generation>>

Init ==
    /\ plug \in [Externals -> Monitors \cup {"none"}]
    /\ edid = [o \in Externals |-> "complete"]
    /\ junk = {}
    /\ crtc = [o \in Outputs |-> IF o = Panel THEN "full" ELSE "off"]
    /\ primary = Panel
    /\ generation = 0
    /\ step = "idle"
    /\ sample = NoSample
    /\ observation = [reason |-> "not_sampled"]
    /\ changes = 0
    /\ samples = 0
    /\ renamed \in BOOLEAN

World ==
    \/ \E o \in Externals : Replug(o) \/ Flap(o)
    \/ \E p \in Installed : LoadProfile(p)
    \/ \E o \in Outputs : ServiceMoves(o)

Next ==
    /\ SampleStep \/ World
    /\ UNCHANGED renamed

Spec == Init /\ [][Next]_vars

----------------------------------------------------------------------------
(* Properties.                                                             *)

Valid == observation.reason = "none"

\* The monitor on output o when sysfs was read last.
MonitorOn(o) == IF o = Panel THEN "P" ELSE observation.drm.plug[o]

\* The ways in which profile p suits the monitors sysfs showed last.
MonitorMatchings(p) ==
    Matchings([s \in DOMAIN Setup(p) |->
                  {o \in KernelConnected(observation.drm) :
                      FingerprintMatches(Setup(p)[s], MonitorOn(o))}],
              KernelConnected(observation.drm))

Wildcards(p) == {s \in DOMAIN Setup(p) : Setup(p)[s] = "*"}

\* The saved profiles that suit the monitors.  One with two wildcards tells nothing
\* of the outputs it has them for.
Fitting ==
    {p \in Saved : MonitorMatchings(p) /= {} /\ \A s, t \in Wildcards(p) : s = t}

\* An eligible profile maps every saved output to a connector that carried
\* the monitor it was saved for when the sample ended, although the answers
\* came one after the other while screens were replugged: a screen swapped
\* and swapped back during the sample (observe, _invalidity_reason) leaves no
\* profile of the screen that is gone.
EligibleIsThere ==
    Valid => \A m \in observation.eligible : \A s \in DOMAIN m.mapping :
                 FingerprintMatches(Setup(m.profile)[s], MonitorOn(m.mapping[s]))

\* Garbage in X's copy of the EDID, broken extensions and unreadable desktop
\* files strand no screen: in a valid sample whose base blocks are readable
\* and which one saved profile suits, that profile is eligible
\* (_base_identity_eligibility, _attach_planning_configuration).
NotStranded ==
    (/\ Valid
     /\ BaseProven(observation.drm, observation.x) = observation.kernel
     /\ IsInjective([o \in KernelConnected(observation.drm) |-> MonitorOn(o)])
     /\ Sole(Fitting) /= {})
        => {m.profile : m \in observation.eligible} = Fitting

\* Base identity alone never picks one of several suitable profiles, or one of
\* several ways to match its outputs: a profile that autorandr did not detect is
\* eligible only when no other saved profile suits the monitors, and that in one
\* way, unless it takes an output whose EDID nobody can read by a wildcard
\* (_base_identity_eligibility, unique_bijection).
NeverGuessed ==
    Valid => \A m \in observation.eligible :
        \/ m.profile \in observation.detected
        \/ \E s \in Wildcards(m.profile) :
              m.mapping[s] \notin BaseProven(observation.drm, observation.x)
        \/ Fitting = {m.profile} /\ MonitorMatchings(m.profile) = {m.mapping}

\* An exact profile is what the screens show: every saved output is driven
\* as saved, the primary mark is where it was saved, and no unplugged output
\* keeps a CRTC, unless what X shows changed between the answers, which raises no
\* event, or autorandr called a profile current that it did not detect, which it
\* compares by the names of outputs (_exact_profile,
\* _geometry_matches_saved_config, _primary_matches_saved_config).
ExactIsShown ==
    Valid /\ ~observation.moved => \A m \in observation.eligible :
        m.profile \in observation.exact \ observation.undetected =>
            /\ GeometryMatchesSavedConfig(m, observation.x)
            /\ PrimaryMatchesSavedConfig(m, observation.x)
            /\ observation.x.retained = {}

\* What the observer derives always satisfies what the observation demands of
\* its fields (CanonicalObservation._validate_consistent_sample): building it
\* never raises, which would leave the controller blind.
ConstructionSucceeds == observation.reason /= "raised_inconsistent"

=============================================================================
