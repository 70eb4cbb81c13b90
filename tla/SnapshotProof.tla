--------------------------- MODULE SnapshotProof ---------------------------
(***************************************************************************)
(* The canonical observer, for every number of outputs and monitors, every *)
(* catalogue of profiles and any changes during a sample.                  *)
(***************************************************************************)
EXTENDS Snapshot, TLAPS

\* The monitor that a reading of sysfs shows on an output.
Seen(d, o) == IF o = Panel THEN "P" ELSE d.plug[o]

\* A sample whose parts agree, with fingerprints that are right or garbage.
Coherent(s) ==
    /\ s.drm.plug \in [Externals -> Monitors \cup {"none"}]
    /\ ~Inconsistent(s)
    /\ \A o \in DOMAIN s.fingerprints : s.fingerprints[o] \in {Seen(s.drm, o), "junk"}

\* The ways in which a profile suits the monitors of a reading.
Candidates(d, p) ==
    [s \in DOMAIN Setup(p) |->
        {o \in KernelConnected(d) : FingerprintMatches(Setup(p)[s], Seen(d, o))}]

Suits(d, p) == Matchings(Candidates(d, p), KernelConnected(d))

\* What base identity and fingerprints together admit.
Edges(s, p) ==
    [t \in DOMAIN Setup(p) |->
        {o \in KernelNames(s.drm, s.x) :
            \/ /\ o \in DOMAIN s.fingerprints
               /\ FingerprintMatches(Setup(p)[t], s.fingerprints[o])
            \/ /\ Setup(p)[t] /= "*"
               /\ Setup(p)[t] = BaseIdentity(s.drm, s.x)[o]}]

-----------------------------------------------------------------------------
(* Matchings. *)

LEMMA SoleElement ==
    \A S : \A x \in Sole(S) : S = {x} /\ Sole(S) = {x}
  BY DEF Sole

\* A matching, spelled out.
LEMMA MatchingIs ==
    \A c, r, f :
        f \in Matchings(c, r) <=>
            /\ f \in [DOMAIN c -> r]
            /\ \A a, b \in DOMAIN c : f[a] = f[b] => a = b
            /\ \A o \in r : \E a \in DOMAIN c : f[a] = o
            /\ \A a \in DOMAIN c : f[a] \in c[a]
<1> SUFFICES ASSUME NEW c, NEW r, NEW f
             PROVE  f \in Matchings(c, r) <=>
                        /\ f \in [DOMAIN c -> r]
                        /\ \A a, b \in DOMAIN c : f[a] = f[b] => a = b
                        /\ \A o \in r : \E a \in DOMAIN c : f[a] = o
                        /\ \A a \in DOMAIN c : f[a] \in c[a]
  OBVIOUS
<1> QED
  BY DEF Matchings, Bijection, Injection, Surjection, IsInjective

\* Two saved outputs that could change places leave no sole matching.
LEMMA Swapped ==
    ASSUME NEW c, NEW r, NEW f \in Matchings(c, r), NEW a \in DOMAIN c, NEW b \in DOMAIN c,
           a # b, f[a] \in c[b], f[b] \in c[a]
    PROVE  Matchings(c, r) # {f}
<1> DEFINE g == [f EXCEPT ![a] = f[b], ![b] = f[a]]
<1>1. /\ f \in [DOMAIN c -> r]
      /\ \A x, y \in DOMAIN c : f[x] = f[y] => x = y
      /\ \A o \in r : \E x \in DOMAIN c : f[x] = o
      /\ \A x \in DOMAIN c : f[x] \in c[x]
  BY MatchingIs
<1>2. g \in [DOMAIN c -> r]
  BY <1>1
<1>3. /\ g[a] = f[b] /\ g[b] = f[a]
      /\ \A x \in DOMAIN c \ {a, b} : g[x] = f[x]
  BY <1>1
<1> HIDE DEF g
<1>4. \A x, y \in DOMAIN c : g[x] = g[y] => x = y
  BY <1>1, <1>3
<1>5. \A o \in r : \E x \in DOMAIN c : g[x] = o
  <2> SUFFICES ASSUME NEW o \in r PROVE \E x \in DOMAIN c : g[x] = o
    OBVIOUS
  <2>1. PICK x \in DOMAIN c : f[x] = o
    BY <1>1
  <2> QED
    BY <1>3, <2>1
<1>6. \A x \in DOMAIN c : g[x] \in c[x]
  BY <1>1, <1>3
<1>7. g \in Matchings(c, r)
  BY <1>2, <1>4, <1>5, <1>6, MatchingIs
<1>8. g # f
  BY <1>1, <1>3
<1> QED
  BY <1>7, <1>8

\* Two matchings that agree but on one saved output are the same.
LEMMA SameButOne ==
    ASSUME NEW c, NEW r, NEW f \in Matchings(c, r), NEW d, NEW g \in Matchings(d, r),
           DOMAIN d = DOMAIN c, NEW w, \A a \in DOMAIN c \ {w} : f[a] = g[a]
    PROVE  f = g
<1>1. /\ f \in [DOMAIN c -> r]
      /\ \A x, y \in DOMAIN c : f[x] = f[y] => x = y
      /\ \A o \in r : \E x \in DOMAIN c : f[x] = o
  BY MatchingIs
<1>2. /\ g \in [DOMAIN c -> r]
      /\ \A x, y \in DOMAIN c : g[x] = g[y] => x = y
      /\ \A o \in r : \E x \in DOMAIN c : g[x] = o
  BY MatchingIs
<1>3. ASSUME w \in DOMAIN c PROVE f[w] = g[w]
  <2>1. PICK x \in DOMAIN c : f[x] = g[w]
    BY <1>1, <1>2, <1>3
  <2>2. CASE x = w
    BY <2>1, <2>2
  <2>3. CASE x # w
    <3>1. g[x] = g[w]
      BY <2>1, <2>3
    <3> QED
      BY <1>2, <1>3, <2>3, <3>1
  <2> QED
    BY <2>2, <2>3
<1>4. \A a \in DOMAIN c : f[a] = g[a]
  BY <1>3
<1> QED
  BY <1>1, <1>2, <1>4

-----------------------------------------------------------------------------
(* Coherent samples. *)

\* Kernel, X and fingerprints agree on the outputs and their names.
LEMMA SameOutputs ==
    \A s : Coherent(s) =>
        /\ Translated(s.drm, s.x) = KernelConnected(s.drm)
        /\ KernelNames(s.drm, s.x) = KernelConnected(s.drm)
        /\ s.x.connected = KernelConnected(s.drm)
        /\ DOMAIN s.fingerprints = KernelConnected(s.drm)
        /\ KernelConnected(s.drm) \subseteq Outputs
        /\ \A o \in KernelConnected(s.drm) : NameOf(s.drm, s.x, o) = o
<1> SUFFICES ASSUME NEW s, Coherent(s)
             PROVE  /\ Translated(s.drm, s.x) = KernelConnected(s.drm)
                    /\ KernelNames(s.drm, s.x) = KernelConnected(s.drm)
                    /\ s.x.connected = KernelConnected(s.drm)
                    /\ DOMAIN s.fingerprints = KernelConnected(s.drm)
                    /\ KernelConnected(s.drm) \subseteq Outputs
                    /\ \A o \in KernelConnected(s.drm) : NameOf(s.drm, s.x, o) = o
  OBVIOUS
<1>1. /\ Translated(s.drm, s.x) = KernelConnected(s.drm)
      /\ KernelNames(s.drm, s.x) = s.x.connected
      /\ DOMAIN s.fingerprints = s.x.connected
  BY DEF Coherent, Inconsistent
<1>2. \A o \in KernelConnected(s.drm) : NameOf(s.drm, s.x, o) = o
  BY <1>1 DEF NameOf
<1>3. KernelNames(s.drm, s.x) = KernelConnected(s.drm)
  BY <1>2 DEF KernelNames
<1>4. KernelConnected(s.drm) \subseteq Outputs
  BY DEF KernelConnected, Outputs
<1> QED
  BY <1>1, <1>2, <1>3, <1>4

\* A base identity that was read is the monitor's.
LEMMA BaseSeen ==
    \A s : Coherent(s) => \A o \in KernelConnected(s.drm) :
        /\ BaseIdentity(s.drm, s.x)[o] \in {Seen(s.drm, o), ""}
        /\ o \in BaseProven(s.drm, s.x) => BaseIdentity(s.drm, s.x)[o] = Seen(s.drm, o)
        /\ Seen(s.drm, o) \in Monitors \cup {"P"}
<1> SUFFICES ASSUME NEW s, Coherent(s), NEW o \in KernelConnected(s.drm)
             PROVE  /\ BaseIdentity(s.drm, s.x)[o] \in {Seen(s.drm, o), ""}
                    /\ o \in BaseProven(s.drm, s.x) => BaseIdentity(s.drm, s.x)[o] = Seen(s.drm, o)
                    /\ Seen(s.drm, o) \in Monitors \cup {"P"}
  OBVIOUS
<1>1. /\ KernelNames(s.drm, s.x) = KernelConnected(s.drm)
      /\ \A e \in KernelConnected(s.drm) : NameOf(s.drm, s.x, e) = e
  BY SameOutputs
<1>2. (CHOOSE e \in KernelConnected(s.drm) : NameOf(s.drm, s.x, e) = o) = o
  BY <1>1
<1>3. BaseIdentity(s.drm, s.x)[o] \in {Seen(s.drm, o), ""}
  BY <1>1, <1>2 DEF BaseIdentity, Seen
<1>4. o = Panel \/ (o \in Externals /\ s.drm.plug[o] # "none")
  BY DEF KernelConnected
<1>5. Seen(s.drm, o) \in Monitors \cup {"P"}
  BY <1>4 DEF Coherent, Seen
<1> QED
  BY <1>3, <1>5 DEF BaseProven

\* What a profile saves for an output.
LEMMA SavedFor ==
    \A p \in Installed : \A t \in DOMAIN Setup(p) : Setup(p)[t] \in Monitors \cup {"P", "*"}
  BY CatalogueAssumption DEF ParsedProfile, Setup

\* A fingerprint or a base identity that matches is that of a monitor that matches;
\* the other way round, a readable monitor that matches is found.
LEMMA EdgeSeen ==
    \A s : Coherent(s) => \A p \in Installed : \A t \in DOMAIN Setup(p) :
        \A o \in KernelConnected(s.drm) :
            /\ FingerprintMatches(Setup(p)[t], s.fingerprints[o]) =>
                  FingerprintMatches(Setup(p)[t], Seen(s.drm, o))
            /\ o \in Edges(s, p)[t] => FingerprintMatches(Setup(p)[t], Seen(s.drm, o))
            /\ FingerprintMatches(Setup(p)[t], s.fingerprints[o]) => o \in Edges(s, p)[t]
            /\ (/\ FingerprintMatches(Setup(p)[t], Seen(s.drm, o))
                /\ Seen(s.drm, o) \in {s.fingerprints[o], BaseIdentity(s.drm, s.x)[o]})
               => o \in Edges(s, p)[t]
            /\ Setup(p)[t] = "*" => o \in Edges(s, p)[t]
            /\ o \in Edges(s, p)[t] /\ Setup(p)[t] # "*" =>
                  Seen(s.drm, o) \in {s.fingerprints[o], BaseIdentity(s.drm, s.x)[o]}
<1> SUFFICES ASSUME NEW s, Coherent(s), NEW p \in Installed, NEW t \in DOMAIN Setup(p),
                    NEW o \in KernelConnected(s.drm)
             PROVE
            /\ FingerprintMatches(Setup(p)[t], s.fingerprints[o]) =>
                  FingerprintMatches(Setup(p)[t], Seen(s.drm, o))
            /\ o \in Edges(s, p)[t] => FingerprintMatches(Setup(p)[t], Seen(s.drm, o))
            /\ FingerprintMatches(Setup(p)[t], s.fingerprints[o]) => o \in Edges(s, p)[t]
            /\ (/\ FingerprintMatches(Setup(p)[t], Seen(s.drm, o))
                /\ Seen(s.drm, o) \in {s.fingerprints[o], BaseIdentity(s.drm, s.x)[o]})
               => o \in Edges(s, p)[t]
            /\ Setup(p)[t] = "*" => o \in Edges(s, p)[t]
            /\ o \in Edges(s, p)[t] /\ Setup(p)[t] # "*" =>
                  Seen(s.drm, o) \in {s.fingerprints[o], BaseIdentity(s.drm, s.x)[o]}
  OBVIOUS
<1>1. /\ s.fingerprints[o] \in {Seen(s.drm, o), "junk"}
      /\ o \in DOMAIN s.fingerprints
      /\ o \in KernelNames(s.drm, s.x)
  BY SameOutputs DEF Coherent
<1>2. Setup(p)[t] \notin {"junk", ""}
  BY SavedFor, HardwareAssumption
<1>3. BaseIdentity(s.drm, s.x)[o] \in {Seen(s.drm, o), ""}
  BY BaseSeen
<1>4. o \in Edges(s, p)[t] <=>
          \/ FingerprintMatches(Setup(p)[t], s.fingerprints[o])
          \/ Setup(p)[t] /= "*" /\ Setup(p)[t] = BaseIdentity(s.drm, s.x)[o]
  BY <1>1 DEF Edges
<1> QED
  BY <1>1, <1>2, <1>3, <1>4 DEF FingerprintMatches

\* Saved and seen, the edges of a profile.
LEMMA EdgesSeen ==
    ASSUME NEW s, Coherent(s), NEW p \in Installed, NEW f \in Matchings(Edges(s, p), s.x.connected)
    PROVE  f \in Suits(s.drm, p)
<1>1. s.x.connected = KernelConnected(s.drm)
  BY SameOutputs
<1>2. DOMAIN Edges(s, p) = DOMAIN Setup(p) /\ DOMAIN Candidates(s.drm, p) = DOMAIN Setup(p)
  BY DEF Edges, Candidates
<1>3. /\ f \in [DOMAIN Setup(p) -> KernelConnected(s.drm)]
      /\ \A a, b \in DOMAIN Setup(p) : f[a] = f[b] => a = b
      /\ \A o \in KernelConnected(s.drm) : \E a \in DOMAIN Setup(p) : f[a] = o
      /\ \A a \in DOMAIN Setup(p) : f[a] \in Edges(s, p)[a]
  BY <1>1, <1>2, MatchingIs
<1>4. \A a \in DOMAIN Setup(p) : f[a] \in Candidates(s.drm, p)[a]
  BY <1>3, EdgeSeen DEF Candidates
<1> QED
  BY <1>2, <1>3, <1>4, MatchingIs DEF Suits

\* Where an eligible profile comes from.
LEMMA EligibleFrom ==
    ASSUME NEW s, Coherent(s), NEW m \in Eligible(s)
    PROVE  /\ m.profile \in Saved
           /\ m.active = {m.mapping[t] : t \in ActiveOf(m.profile)}
           /\ \/ /\ m \in EligibleProfiles(s)
                 /\ m.profile \in s.detected
                 /\ IsInjective(Setup(m.profile))
                 /\ m.mapping \in Recognised(m.profile, s.fingerprints)
                 /\ Recognised(m.profile, s.fingerprints) = {m.mapping}
              \/ /\ m \in BaseIdentityEligibility(s)
                 /\ EligibleProfiles(s) = {}
                 /\ Matchings(Edges(s, m.profile), s.x.connected) = {m.mapping}
                 /\ Eligible(s) = {m}
<1>1. CASE m \in EligibleProfiles(s)
  <2>1. PICK p \in s.detected \cap Saved :
          m \in ProfileMatches(p, ResolveOutputMapping(p, s.fingerprints, s.x.connected))
    BY <1>1 DEF EligibleProfiles
  <2>2. PICK f \in ResolveOutputMapping(p, s.fingerprints, s.x.connected) :
          m = [profile |-> p, mapping |-> f, active |-> {f[t] : t \in ActiveOf(p)}]
    BY <2>1 DEF ProfileMatches
  <2> DEFINE c == [t \in DOMAIN Setup(p) |->
                     {o \in s.x.connected : FingerprintMatches(Setup(p)[t], s.fingerprints[o])}]
  <2>3. f \in UniqueBijection(c, s.x.connected) /\ IsInjective(Setup(p))
        /\ DOMAIN s.fingerprints = s.x.connected
    BY <2>2 DEF ResolveOutputMapping
  <2>4. Matchings(c, s.x.connected) = {f}
    BY <2>3, SoleElement DEF UniqueBijection
  <2>5. Matchings(c, s.x.connected) = Recognised(p, s.fingerprints)
    BY <2>3 DEF Recognised
  <2>6. m.profile = p /\ m.mapping = f /\ m.active = {f[t] : t \in ActiveOf(p)}
    BY <2>2
  <2> HIDE DEF c
  <2> QED
    BY <1>1, <2>1, <2>3, <2>4, <2>5, <2>6
<1>2. CASE m \notin EligibleProfiles(s)
  <2>1. EligibleProfiles(s) = {} /\ m \in BaseIdentityEligibility(s)
        /\ Eligible(s) = BaseIdentityEligibility(s)
    BY <1>2 DEF Eligible
  <2> DEFINE all == UNION {ProfileMatches(p,
                          ResolveProbeMapping(p, s.fingerprints,
                              BaseIdentity(s.drm, s.x), KernelNames(s.drm, s.x))) :
                          p \in Saved}
  <2>2. m \in Sole(all) /\ BaseIdentityEligibility(s) = Sole(all)
    BY <2>1 DEF BaseIdentityEligibility
  <2>3. all = {m} /\ Sole(all) = {m}
    BY <2>2, SoleElement
  <2>4. m \in all
    BY <2>3
  <2>5. PICK p \in Saved : m \in ProfileMatches(p, ResolveProbeMapping(p, s.fingerprints,
                              BaseIdentity(s.drm, s.x), KernelNames(s.drm, s.x)))
    BY <2>4
  <2>6. PICK f \in ResolveProbeMapping(p, s.fingerprints,
                              BaseIdentity(s.drm, s.x), KernelNames(s.drm, s.x)) :
          m = [profile |-> p, mapping |-> f, active |-> {f[t] : t \in ActiveOf(p)}]
    BY <2>5 DEF ProfileMatches
  <2>7. ResolveProbeMapping(p, s.fingerprints, BaseIdentity(s.drm, s.x), KernelNames(s.drm, s.x))
          = Sole(Matchings(Edges(s, p), KernelNames(s.drm, s.x)))
    BY DEF ResolveProbeMapping, Edges, UniqueBijection
  <2>8. Matchings(Edges(s, p), KernelNames(s.drm, s.x)) = {f}
    BY <2>6, <2>7, SoleElement
  <2>9. KernelNames(s.drm, s.x) = s.x.connected
    BY SameOutputs
  <2>10. m.profile = p /\ m.mapping = f /\ m.active = {f[t] : t \in ActiveOf(p)}
    BY <2>6
  <2> HIDE DEF all
  <2> QED
    BY <2>1, <2>2, <2>3, <2>8, <2>9, <2>10
<1> QED
  BY <1>1, <1>2

\* An eligible profile suits the monitors that the sample saw.
LEMMA EligibleSuits ==
    ASSUME NEW s, Coherent(s), NEW m \in Eligible(s)
    PROVE  m.profile \in Saved /\ m.mapping \in Suits(s.drm, m.profile)
<1> DEFINE p == m.profile
           f == m.mapping
<1>1. p \in Saved /\ p \in Installed
  BY EligibleFrom, CatalogueAssumption
<1>2. CASE f \in Matchings(Edges(s, p), s.x.connected)
  BY <1>1, <1>2, EdgesSeen
<1>3. CASE f \in Recognised(p, s.fingerprints)
  <2> HIDE DEF p, f
  <2>1. DOMAIN s.fingerprints = KernelConnected(s.drm)
    BY SameOutputs
  <2>2. /\ f \in [DOMAIN Setup(p) -> KernelConnected(s.drm)]
        /\ \A a, b \in DOMAIN Setup(p) : f[a] = f[b] => a = b
        /\ \A o \in KernelConnected(s.drm) : \E a \in DOMAIN Setup(p) : f[a] = o
        /\ \A a \in DOMAIN Setup(p) : FingerprintMatches(Setup(p)[a], s.fingerprints[f[a]])
    BY <1>3, <2>1, MatchingIs DEF Recognised
  <2>3. \A a \in DOMAIN Setup(p) : f[a] \in Candidates(s.drm, p)[a]
    BY <1>1, <2>2, EdgeSeen DEF Candidates
  <2>4. DOMAIN Candidates(s.drm, p) = DOMAIN Setup(p)
    BY DEF Candidates
  <2>5. f \in Suits(s.drm, p)
    BY <2>2, <2>3, <2>4, MatchingIs DEF Suits
  <2> QED
    BY <1>1, <2>5 DEF p, f
<1>4. f \in Matchings(Edges(s, p), s.x.connected) \/ f \in Recognised(p, s.fingerprints)
  <2>1. \/ m.mapping \in Recognised(m.profile, s.fingerprints)
        \/ Matchings(Edges(s, m.profile), s.x.connected) = {m.mapping}
    BY EligibleFrom
  <2> QED
    BY <2>1
<1> QED
  BY <1>2, <1>3, <1>4

\* Distinct monitors leave one way to match a profile with one wildcard at most.
LEMMA OneFit ==
    ASSUME NEW d, NEW p \in Installed, \A a, b \in Wildcards(p) : a = b,
           \A o, e \in KernelConnected(d) : Seen(d, o) = Seen(d, e) => o = e,
           NEW f \in Suits(d, p), NEW g \in Suits(d, p)
    PROVE  f = g
<1>1. DOMAIN Candidates(d, p) = DOMAIN Setup(p)
  BY DEF Candidates
<1>2. \A h \in Suits(d, p) : \A a \in DOMAIN Setup(p) :
          h[a] \in KernelConnected(d) /\ (Setup(p)[a] # "*" => Seen(d, h[a]) = Setup(p)[a])
  <2> SUFFICES ASSUME NEW h \in Suits(d, p), NEW a \in DOMAIN Setup(p)
               PROVE h[a] \in KernelConnected(d) /\ (Setup(p)[a] # "*" => Seen(d, h[a]) = Setup(p)[a])
    OBVIOUS
  <2>1. h[a] \in Candidates(d, p)[a]
    BY <1>1, MatchingIs DEF Suits
  <2> QED
    BY <2>1 DEF Candidates, FingerprintMatches
<1>3. \A a \in DOMAIN Setup(p) : Setup(p)[a] # "*" => f[a] = g[a]
  BY <1>2
<1>4. PICK w : \A a \in DOMAIN Setup(p) \ {w} : Setup(p)[a] # "*"
  BY DEF Wildcards
<1>5. \A a \in DOMAIN Candidates(d, p) \ {w} : f[a] = g[a]
  BY <1>1, <1>3, <1>4
<1> QED
  BY <1>5, SameButOne DEF Suits

\* The saved profiles that suit the monitors of a reading.
Fits(d) == {p \in Saved : Suits(d, p) # {} /\ \A a, b \in Wildcards(p) : a = b}

\* The profiles that base identity would make eligible.
Fallback(s) ==
    UNION {ProfileMatches(p, ResolveProbeMapping(p, s.fingerprints,
                                 BaseIdentity(s.drm, s.x), KernelNames(s.drm, s.x))) :
              p \in Saved}

\* They are the ones with a sole matching.
LEMMA FallbackIs ==
    ASSUME NEW s, Coherent(s)
    PROVE  /\ BaseIdentityEligibility(s) = Sole(Fallback(s))
           /\ \A p \in Saved : \A f : Matchings(Edges(s, p), s.x.connected) = {f} =>
                 \E m \in Fallback(s) : m.profile = p /\ m.mapping = f
           /\ \A m \in Fallback(s) :
                 /\ m.profile \in Saved
                 /\ Matchings(Edges(s, m.profile), s.x.connected) = {m.mapping}
           /\ \A m, n \in Fallback(s) : m.profile = n.profile => m = n
<1>1. KernelNames(s.drm, s.x) = s.x.connected
  BY SameOutputs
<1> DEFINE Resolved(p) == ResolveProbeMapping(p, s.fingerprints,
                              BaseIdentity(s.drm, s.x), KernelNames(s.drm, s.x))
<1>2. \A p : Resolved(p) = Sole(Matchings(Edges(s, p), s.x.connected))
  BY <1>1 DEF ResolveProbeMapping, Edges, UniqueBijection
<1>3. BaseIdentityEligibility(s) = Sole(Fallback(s))
  BY <1>1 DEF BaseIdentityEligibility, Fallback
<1>4. ASSUME NEW p \in Saved, NEW f, Matchings(Edges(s, p), s.x.connected) = {f}
      PROVE  \E m \in Fallback(s) : m.profile = p /\ m.mapping = f
  <2>1. f \in Resolved(p)
    BY <1>2, <1>4 DEF Sole
  <2> DEFINE m == [profile |-> p, mapping |-> f, active |-> {f[t] : t \in ActiveOf(p)}]
  <2>2. m \in ProfileMatches(p, Resolved(p))
    BY <2>1 DEF ProfileMatches
  <2>3. m \in Fallback(s)
    BY <2>2 DEF Fallback
  <2> QED
    BY <2>3
<1>5. ASSUME NEW m \in Fallback(s)
      PROVE  /\ m.profile \in Saved
             /\ Matchings(Edges(s, m.profile), s.x.connected) = {m.mapping}
             /\ m = [profile |-> m.profile, mapping |-> m.mapping,
                     active |-> {m.mapping[t] : t \in ActiveOf(m.profile)}]
  <2>1. PICK p \in Saved : m \in ProfileMatches(p, Resolved(p))
    BY <1>5 DEF Fallback
  <2>2. PICK f \in Resolved(p) :
          m = [profile |-> p, mapping |-> f, active |-> {f[t] : t \in ActiveOf(p)}]
    BY <2>1 DEF ProfileMatches
  <2>3. Matchings(Edges(s, p), s.x.connected) = {f}
    BY <1>2, SoleElement
  <2> QED
    BY <2>2, <2>3
<1>6. ASSUME NEW m \in Fallback(s), NEW n \in Fallback(s), m.profile = n.profile PROVE m = n
  <2>1. m.mapping = n.mapping
    BY <1>5, <1>6
  <2> QED
    BY <1>5, <1>6, <2>1
<1> QED
  BY <1>3, <1>4, <1>5, <1>6

\* A profile with a sole matching has at most one wildcard.
LEMMA UniqueFits ==
    ASSUME NEW s, Coherent(s), NEW p \in Saved, NEW f,
           Matchings(Edges(s, p), s.x.connected) = {f}
    PROVE  p \in Fits(s.drm)
<1>1. p \in Installed /\ s.x.connected = KernelConnected(s.drm)
  BY CatalogueAssumption, SameOutputs
<1>2. f \in Suits(s.drm, p)
  BY <1>1, EdgesSeen
<1>3. DOMAIN Edges(s, p) = DOMAIN Setup(p)
  BY DEF Edges
<1>4. ASSUME NEW a \in Wildcards(p), NEW b \in Wildcards(p), a # b PROVE FALSE
  <2>1. a \in DOMAIN Setup(p) /\ b \in DOMAIN Setup(p) /\ Setup(p)[a] = "*" /\ Setup(p)[b] = "*"
    BY <1>4 DEF Wildcards
  <2>2. f \in Matchings(Edges(s, p), s.x.connected)
    OBVIOUS
  <2>3. f[a] \in KernelConnected(s.drm) /\ f[b] \in KernelConnected(s.drm)
    BY <1>1, <1>3, <2>1, <2>2, MatchingIs
  <2>4. f[a] \in Edges(s, p)[b] /\ f[b] \in Edges(s, p)[a]
    BY <1>1, <2>1, <2>3, EdgeSeen
  <2> QED
    BY <1>3, <1>4, <2>1, <2>2, <2>4, Swapped
<1> QED
  BY <1>2, <1>4 DEF Fits

LEMMA EligibleFits ==
    ASSUME NEW s, Coherent(s), NEW m \in Eligible(s)
    PROVE  m.profile \in Fits(s.drm)
<1>1. m.profile \in Saved /\ m.mapping \in Suits(s.drm, m.profile)
  BY EligibleSuits
<1>2. CASE IsInjective(Setup(m.profile))
  BY <1>1, <1>2 DEF Fits, Wildcards, IsInjective
<1>3. CASE Matchings(Edges(s, m.profile), s.x.connected) = {m.mapping}
  BY <1>1, <1>3, UniqueFits
<1> QED
  BY <1>2, <1>3, EligibleFrom

\* Where the monitors are distinct and their base blocks are read, the only profile
\* that suits them is eligible.
LEMMA FittingIsEligible ==
    ASSUME NEW s, Coherent(s), NEW q, Fits(s.drm) = {q},
           BaseProven(s.drm, s.x) = KernelConnected(s.drm),
           \A o, e \in KernelConnected(s.drm) : Seen(s.drm, o) = Seen(s.drm, e) => o = e
    PROVE  {m.profile : m \in Eligible(s)} = {q}
<1>1. \A m \in Eligible(s) : m.profile = q
  BY EligibleFits
<1>2. CASE EligibleProfiles(s) # {}
  BY <1>1, <1>2 DEF Eligible
<1>3. CASE EligibleProfiles(s) = {}
  <2>1. q \in Saved /\ q \in Installed /\ (\A a, b \in Wildcards(q) : a = b)
    BY CatalogueAssumption DEF Fits
  <2>2. PICK f : f \in Suits(s.drm, q)
    BY DEF Fits
  <2>3. s.x.connected = KernelConnected(s.drm)
    BY SameOutputs
  <2>4. DOMAIN Edges(s, q) = DOMAIN Setup(q) /\ DOMAIN Candidates(s.drm, q) = DOMAIN Setup(q)
    BY DEF Edges, Candidates
  <2>5. /\ f \in [DOMAIN Setup(q) -> KernelConnected(s.drm)]
        /\ \A a, b \in DOMAIN Setup(q) : f[a] = f[b] => a = b
        /\ \A o \in KernelConnected(s.drm) : \E a \in DOMAIN Setup(q) : f[a] = o
        /\ \A a \in DOMAIN Setup(q) : f[a] \in Candidates(s.drm, q)[a]
    BY <2>2, <2>4, MatchingIs DEF Suits
  <2>6. \A a \in DOMAIN Setup(q) : f[a] \in Edges(s, q)[a]
    <3> SUFFICES ASSUME NEW a \in DOMAIN Setup(q) PROVE f[a] \in Edges(s, q)[a]
      OBVIOUS
    <3>1. FingerprintMatches(Setup(q)[a], Seen(s.drm, f[a])) /\ f[a] \in KernelConnected(s.drm)
      BY <2>5 DEF Candidates
    <3>2. BaseIdentity(s.drm, s.x)[f[a]] = Seen(s.drm, f[a])
      BY <3>1, BaseSeen
    <3> QED
      BY <2>1, <3>1, <3>2, EdgeSeen
  <2>7. f \in Matchings(Edges(s, q), s.x.connected)
    BY <2>3, <2>4, <2>5, <2>6, MatchingIs
  <2>8. \A g \in Matchings(Edges(s, q), s.x.connected) : g = f
    BY <2>1, <2>2, EdgesSeen, OneFit
  <2>9. Matchings(Edges(s, q), s.x.connected) = {f}
    BY <2>7, <2>8
  <2>10. PICK m \in Fallback(s) : m.profile = q
    BY <2>1, <2>9, FallbackIs
  <2>11. ASSUME NEW n \in Fallback(s) PROVE n.profile = q
    <3>1. n.profile \in Saved /\ Matchings(Edges(s, n.profile), s.x.connected) = {n.mapping}
      BY FallbackIs
    <3>2. n.profile \in Fits(s.drm)
      BY <3>1, UniqueFits
    <3> QED
      BY <3>2
  <2>12. Fallback(s) = {m}
    BY <2>10, <2>11, FallbackIs
  <2>13. Eligible(s) = {m}
    BY <1>3, <2>12, FallbackIs DEF Eligible, Sole
  <2> QED
    BY <2>10, <2>13
<1> QED
  BY <1>2, <1>3

\* A profile made eligible by base identity is the only one that suits, in one way.
LEMMA FallbackIsSole ==
    ASSUME NEW s, Coherent(s), NEW m \in Eligible(s), m.profile \notin s.detected,
           \A a \in Wildcards(m.profile) : m.mapping[a] \in BaseProven(s.drm, s.x)
    PROVE  Fits(s.drm) = {m.profile} /\ Suits(s.drm, m.profile) = {m.mapping}
<1> DEFINE p == m.profile
           f == m.mapping
           K == KernelConnected(s.drm)
<1>1. /\ m \in BaseIdentityEligibility(s)
      /\ Matchings(Edges(s, p), s.x.connected) = {f}
      /\ p \in Saved /\ p \in Installed
      /\ s.x.connected = K
  BY EligibleFrom, CatalogueAssumption, SameOutputs
<1>2. Fallback(s) = {m}
  BY <1>1, FallbackIs, SoleElement
<1>3. \A q : DOMAIN Edges(s, q) = DOMAIN Setup(q) /\ DOMAIN Candidates(s.drm, q) = DOMAIN Setup(q)
  BY DEF Edges, Candidates
<1>4. f \in Matchings(Edges(s, p), K)
  BY <1>1
<1>5. /\ f \in [DOMAIN Setup(p) -> K]
      /\ \A o \in K : \E a \in DOMAIN Setup(p) : f[a] = o
      /\ \A a \in DOMAIN Setup(p) : f[a] \in Edges(s, p)[a]
  BY <1>3, <1>4, MatchingIs
<1> HIDE DEF p, f, K
<1>6. \A o \in K : Seen(s.drm, o) \in {s.fingerprints[o], BaseIdentity(s.drm, s.x)[o]}
  <2> SUFFICES ASSUME NEW o \in K
               PROVE Seen(s.drm, o) \in {s.fingerprints[o], BaseIdentity(s.drm, s.x)[o]}
    OBVIOUS
  <2>1. PICK a \in DOMAIN Setup(p) : f[a] = o
    BY <1>5
  <2>2. CASE Setup(p)[a] = "*"
    <3>1. o \in BaseProven(s.drm, s.x)
      BY <2>1, <2>2 DEF Wildcards, p, f
    <3> QED
      BY <3>1, BaseSeen DEF K
  <2>3. CASE Setup(p)[a] # "*"
    BY <1>1, <1>5, <2>1, <2>3, EdgeSeen DEF K
  <2> QED
    BY <2>2, <2>3
<1>7. \A q \in Installed : Matchings(Edges(s, q), K) = Suits(s.drm, q)
  <2> SUFFICES ASSUME NEW q \in Installed, NEW g
               PROVE  g \in Matchings(Edges(s, q), K) <=> g \in Suits(s.drm, q)
    OBVIOUS
  <2>1. \A a \in DOMAIN Setup(q) : \A o \in K :
            o \in Edges(s, q)[a] <=> o \in Candidates(s.drm, q)[a]
    BY <1>6, EdgeSeen DEF K, Candidates
  <2>2. \A a \in DOMAIN Setup(q) : \A h : h \in [DOMAIN Setup(q) -> K] =>
            (h[a] \in Edges(s, q)[a] <=> h[a] \in Candidates(s.drm, q)[a])
    BY <2>1
  <2> QED
    BY <1>3, <2>2, MatchingIs DEF Suits, K
<1>8. \A o, e \in K : Seen(s.drm, o) = Seen(s.drm, e) => o = e
  <2> SUFFICES ASSUME NEW o \in K, NEW e \in K, Seen(s.drm, o) = Seen(s.drm, e), o # e
               PROVE FALSE
    OBVIOUS
  <2>1. PICK a \in DOMAIN Setup(p) : f[a] = o
    BY <1>5
  <2>2. PICK b \in DOMAIN Setup(p) : f[b] = e
    BY <1>5
  <2>3. a # b
    BY <2>1, <2>2
  <2>4. e \in Edges(s, p)[a] /\ o \in Edges(s, p)[b]
    BY <1>1, <1>5, <1>6, <2>1, <2>2, EdgeSeen DEF K
  <2> QED
    BY <1>1, <1>3, <1>4, <2>1, <2>2, <2>3, <2>4, Swapped
<1>9. Suits(s.drm, p) = {f}
  BY <1>1, <1>7
<1>10. \A q \in Fits(s.drm) : q = p
  <2> SUFFICES ASSUME NEW q \in Fits(s.drm) PROVE q = p
    OBVIOUS
  <2>1. q \in Saved /\ q \in Installed /\ (\A a, b \in Wildcards(q) : a = b)
    BY CatalogueAssumption DEF Fits
  <2>2. PICK g : g \in Suits(s.drm, q)
    BY DEF Fits
  <2>3. Suits(s.drm, q) = {g}
    BY <1>8, <2>1, <2>2, OneFit DEF K
  <2>4. Matchings(Edges(s, q), s.x.connected) = {g}
    BY <1>1, <1>7, <2>1, <2>3
  <2>5. \E n \in Fallback(s) : n.profile = q
    BY <2>1, <2>4, FallbackIs
  <2> QED
    BY <1>2, <2>5 DEF p
<1>11. p \in Fits(s.drm)
  BY EligibleFits DEF p
<1> QED
  BY <1>9, <1>10, <1>11 DEF p, f

-----------------------------------------------------------------------------
(* The observation that is built from a sample. *)

\* Two matches of one profile are the same.
LEMMA EligibleOnce ==
    ASSUME NEW s, Coherent(s), NEW m \in Eligible(s), NEW n \in Eligible(s),
           m.profile = n.profile
    PROVE  m = n
<1>1. CASE EligibleProfiles(s) = {}
  BY <1>1, EligibleFrom
<1>2. CASE EligibleProfiles(s) # {}
  <2>1. m \in EligibleProfiles(s) /\ n \in EligibleProfiles(s)
    BY <1>2 DEF Eligible
  <2>2. PICK p, f : m = [profile |-> p, mapping |-> f, active |-> {f[t] : t \in ActiveOf(p)}]
    BY <2>1 DEF EligibleProfiles, ProfileMatches
  <2>3. PICK q, g : n = [profile |-> q, mapping |-> g, active |-> {g[t] : t \in ActiveOf(q)}]
    BY <2>1 DEF EligibleProfiles, ProfileMatches
  <2>4. m.mapping = n.mapping
    BY <1>2, EligibleFrom
  <2> QED
    BY <2>2, <2>3, <2>4
<1> QED
  BY <1>1, <1>2

\* The outputs an eligible profile is matched with are those that X shows.
LEMMA EligibleCovers ==
    ASSUME NEW s, Coherent(s), NEW m \in Eligible(s)
    PROVE  /\ Range(m.mapping) = KernelConnected(s.drm)
           /\ DOMAIN m.mapping = DOMAIN Setup(m.profile)
           /\ m.mapping \in [DOMAIN Setup(m.profile) -> KernelConnected(s.drm)]
<1>1. m.mapping \in Suits(s.drm, m.profile)
  BY EligibleSuits
<1>2. DOMAIN Candidates(s.drm, m.profile) = DOMAIN Setup(m.profile)
  BY DEF Candidates
<1>3. /\ m.mapping \in [DOMAIN Setup(m.profile) -> KernelConnected(s.drm)]
      /\ \A o \in KernelConnected(s.drm) : \E a \in DOMAIN Setup(m.profile) : m.mapping[a] = o
  BY <1>1, <1>2, MatchingIs DEF Suits
<1> QED
  BY <1>3 DEF Range

\* Kernel and X call the same outputs external.
LEMMA ExternalsAgree ==
    ASSUME NEW s, Coherent(s)
    PROVE  /\ KernelExternals(s.drm, s.x) = KernelConnected(s.drm) \ {Panel}
           /\ XExternals(s.drm, s.x) = KernelConnected(s.drm) \ {Panel}
           /\ IdentifiedOutputs(s.drm, s.x) \subseteq KernelConnected(s.drm)
<1>1. /\ Translated(s.drm, s.x) = KernelConnected(s.drm)
      /\ s.x.connected = KernelConnected(s.drm)
      /\ \A o \in KernelConnected(s.drm) : NameOf(s.drm, s.x, o) = o
  BY SameOutputs
<1> QED
  BY <1>1 DEF KernelExternals, XExternals, IdentifiedOutputs

\* What Facts gives for a valid sample, attached to its planning configuration.
Built(s, f) ==
    /\ f.reason = "none"
    /\ f.kernel = KernelNames(s.drm, s.x)
    /\ f.kernelExternal = KernelExternals(s.drm, s.x)
    /\ f.x = s.x
    /\ f.xExternal = XExternals(s.drm, s.x)
    /\ f.fingerprinted = DOMAIN s.fingerprints
    /\ f.detected = s.detected
    /\ f.drm = s.drm
    /\ f.eligible = Eligible(s)
    /\ f.current = Current(s)
    /\ f.exact = ExactProfile(s)
    /\ f.probe = ProbeCandidate(s)
    /\ f.undetected = s.undetected
    /\ f.moved = s.moved

LEMMA AttachedIsBuilt ==
    \A s : Facts(s).reason = "none" =>
        \A o \in AttachPlanningConfiguration(Facts(s)) :
            Built(s, o) \/ o = [reason |-> "raised_changed"]
<1> SUFFICES ASSUME NEW s, Facts(s).reason = "none",
                    NEW o \in AttachPlanningConfiguration(Facts(s)),
                    o # [reason |-> "raised_changed"]
             PROVE  Built(s, o)
  OBVIOUS
<1>1. PICK h : o = [Facts(s) EXCEPT !.hashed = h]
  BY DEF AttachPlanningConfiguration
<1>2. InvalidityReason(s) = "none"
  BY DEF Facts
<1> QED
  BY <1>1, <1>2 DEF Facts, Built

\* The record of a coherent sample satisfies what its construction demands.
LEMMA BuiltConsistent ==
    ASSUME NEW s, Coherent(s), NEW f, Built(s, f)
    PROVE  ValidateConsistentSample(f)
<1> DEFINE K == KernelConnected(s.drm)
<1>1. /\ KernelNames(s.drm, s.x) = K
      /\ s.x.connected = K
      /\ DOMAIN s.fingerprints = K
      /\ KernelExternals(s.drm, s.x) = K \ {Panel}
      /\ XExternals(s.drm, s.x) = K \ {Panel}
      /\ IdentifiedOutputs(s.drm, s.x) \subseteq K
  BY SameOutputs, ExternalsAgree
<1>2. Panel \in K
  BY DEF KernelConnected
<1> HIDE DEF K
<1>3. /\ f.kernel = K /\ f.x = s.x /\ f.x.connected = K /\ f.drm = s.drm
      /\ f.kernelExternal = K \ {Panel} /\ f.xExternal = K \ {Panel}
      /\ f.fingerprinted = K
  BY <1>1 DEF Built
<1>4. \A m \in f.eligible : Range(m.mapping) = K
  BY EligibleCovers DEF K, Built
<1>5. \A m, n \in f.eligible : m.profile = n.profile => m = n
  BY EligibleOnce DEF Built
<1>6. ExactIsConsistent(f)
  <2> SUFFICES ASSUME NEW p \in f.exact
               PROVE  /\ p \in f.current
                      /\ \E m \in f.eligible :
                            /\ m.profile = p
                            /\ f.kernel = f.x.connected
                            /\ Range(m.mapping) = f.kernel
                            /\ m.active = ActiveOutputs(f.x)
                      /\ f.kernelExternal \cup f.xExternal \subseteq
                             BaseProven(f.drm, f.x) \cap IdentifiedOutputs(f.drm, f.x)
                                 \cap BaseIdentityMatches(f.drm, f.x, p)
    BY DEF ExactIsConsistent
  <2>1. PICK m \in Sole(Eligible(s)) :
          /\ m.profile = p
          /\ ActiveOutputs(s.x) = m.active
          /\ Current(s) = {m.profile}
          /\ ExternalsProven(s.drm, s.x, m.profile)
    BY DEF Built, ExactProfile
  <2>2. m \in Eligible(s)
    BY DEF Sole
  <2>3. K \ {Panel} \subseteq BaseProven(s.drm, s.x) \cap IdentifiedOutputs(s.drm, s.x)
                                 \cap BaseIdentityMatches(s.drm, s.x, p)
    BY <1>1, <2>1 DEF ExternalsProven
  <2>4. p \in f.current
    BY <2>1 DEF Built
  <2>5. m \in f.eligible
    BY <2>2 DEF Built
  <2> QED
    BY <1>3, <1>4, <2>1, <2>3, <2>4, <2>5
<1>7. ProbeIsConsistent(f)
  <2> SUFFICES ASSUME NEW p \in f.probe
               PROVE  /\ f.eligible = {}
                      /\ f.kernelExternal = f.xExternal
                      /\ Cardinality(f.xExternal) = 1
                      /\ f.kernel = f.x.connected
                      /\ ActiveOutputs(f.x) = f.x.connected \ f.xExternal
                      /\ f.kernelExternal \subseteq
                             IdentifiedOutputs(f.drm, f.x)
                                 \cap BaseIdentityMatches(f.drm, f.x, p)
    BY DEF ProbeIsConsistent
  <2>1. /\ Eligible(s) = {}
        /\ Cardinality(KernelExternals(s.drm, s.x)) = 1
        /\ ActiveOutputs(s.x) = {Panel}
        /\ KernelExternals(s.drm, s.x) \subseteq IdentifiedOutputs(s.drm, s.x)
        /\ KernelExternals(s.drm, s.x) \subseteq BaseIdentityMatches(s.drm, s.x, p)
    BY DEF Built, ProbeCandidate, Sole
  <2> QED
    BY <1>1, <1>2, <1>3, <2>1 DEF Built
<1> QED
  BY <1>1, <1>3, <1>4, <1>5, <1>6, <1>7 DEF ValidateConsistentSample

-----------------------------------------------------------------------------
(* What X shows. *)

\* The answers are the ones that the commands would give now.
Present(s) ==
    /\ s.x.connected = Connected
    /\ s.x.geometry = [o \in Connected |-> crtc[o]]
    /\ s.x.retained = {o \in Outputs \ Connected : crtc[o] /= "off"}
    /\ s.fingerprints = LiveFingerprints
    /\ s.current = CurrentProfiles
    /\ s.undetected = CurrentProfiles \ Detected(LiveFingerprints)

\* autorandr's way to recognise an eligible profile is the one that was chosen.
LEMMA RecognisedIsEligible ==
    ASSUME NEW s, Coherent(s), NEW m \in Eligible(s),
           NEW f \in Recognised(m.profile, s.fingerprints)
    PROVE  f = m.mapping
<1>1. CASE Recognised(m.profile, s.fingerprints) = {m.mapping}
  BY <1>1
<1>2. CASE Matchings(Edges(s, m.profile), s.x.connected) = {m.mapping}
  <2> DEFINE p == m.profile
  <2>1. p \in Installed
    BY EligibleFrom, CatalogueAssumption
  <2> HIDE DEF p
  <2>2. /\ DOMAIN s.fingerprints = KernelConnected(s.drm)
        /\ s.x.connected = KernelConnected(s.drm)
    BY SameOutputs
  <2>3. f \in Recognised(p, s.fingerprints)
    BY DEF p
  <2>4. /\ f \in [DOMAIN Setup(p) -> KernelConnected(s.drm)]
        /\ \A a, b \in DOMAIN Setup(p) : f[a] = f[b] => a = b
        /\ \A o \in KernelConnected(s.drm) : \E a \in DOMAIN Setup(p) : f[a] = o
        /\ \A a \in DOMAIN Setup(p) : FingerprintMatches(Setup(p)[a], s.fingerprints[f[a]])
    BY <2>2, <2>3, MatchingIs DEF Recognised
  <2>5. \A a \in DOMAIN Setup(p) : f[a] \in Edges(s, p)[a]
    BY <2>1, <2>4, EdgeSeen
  <2>6. DOMAIN Edges(s, p) = DOMAIN Setup(p)
    BY DEF Edges
  <2>7. f \in Matchings(Edges(s, p), s.x.connected)
    BY <2>2, <2>4, <2>5, <2>6, MatchingIs
  <2> QED
    BY <1>2, <2>7 DEF p
<1> QED
  BY <1>1, <1>2, EligibleFrom

\* A profile found exact from answers that are still right is what X shows.
LEMMA ExactShown ==
    ASSUME NEW s, Coherent(s), Present(s), NEW m \in Eligible(s),
           m.profile \in ExactProfile(s) \ s.undetected
    PROVE  /\ GeometryMatchesSavedConfig(m, s.x)
           /\ s.x.retained = {}
<1>1. PICK e \in Sole(Eligible(s)) :
        /\ e.profile = m.profile
        /\ Current(s) = {e.profile}
  BY DEF ExactProfile
<1>2. e = m /\ Sole(Eligible(s)) = {m}
  BY <1>1, SoleElement
<1>3. CASE s.current = {} /\ s.x.retained = {}
  BY <1>1, <1>2, <1>3 DEF Current
<1>4. CASE ~(s.current = {} /\ s.x.retained = {})
  <2> DEFINE p == m.profile
  <2>1. p \in CurrentProfiles /\ p \in Detected(LiveFingerprints)
    BY <1>1, <1>2, <1>4 DEF Current, Present
  <2>2. PICK f \in Placements : Shows(p, f) /\ f \in Recognised(p, s.fingerprints)
    BY <2>1 DEF CurrentProfiles, Present
  <2>3. f = m.mapping
    BY <2>2, RecognisedIsEligible
  <2>4. /\ Range(f) = Connected
        /\ DOMAIN f = DOMAIN Setup(p)
        /\ f \in [DOMAIN Setup(p) -> Connected]
    BY <2>3, EligibleCovers, SameOutputs DEF Present
  <2>5. GeometryMatchesSavedConfig(m, s.x)
    BY <2>2, <2>3, <2>4 DEF GeometryMatchesSavedConfig, Shows, Present
  <2>6. s.x.retained = {}
    BY <2>2, <2>4 DEF Shows, Present
  <2> QED
    BY <2>5, <2>6
<1> QED
  BY <1>3, <1>4

-----------------------------------------------------------------------------
(* What a sample holds while it is taken. *)

Query == {"properties", "fingerprint", "detected", "current", "end_drm", "publish"}
Identities == Query \ {"properties", "fingerprint"}
Layout == {"end_drm", "publish"}

Steps == {"idle", "begin_drm", "query"} \cup Query

SampleTypes ==
    /\ plug \in [Externals -> Monitors \cup {"none"}]
    /\ generation \in Nat
    /\ step \in Steps
    /\ DOMAIN sample = DOMAIN NoSample
    /\ DOMAIN sample.x = DOMAIN NoXState
    /\ sample.begin \in Nat
    /\ sample.begin <= generation
    /\ sample.issues \subseteq CommandFaults \cup {"torn"}
    /\ renamed \in BOOLEAN

\* No event and no fault since the sample began.
Undisturbed == sample.begin = generation /\ sample.issues = {}

\* The screens are then the ones the sample read; X's copy of an EDID may be garbage.
SameScreens ==
    Undisturbed =>
        /\ step \in Identities =>
              /\ DOMAIN sample.fingerprints = Connected
              /\ \A o \in Connected :
                    sample.fingerprints[o] \in {IF o = Panel THEN "P" ELSE plug[o], "junk"}
        /\ step = "publish" =>
              sample.drm.plug =
                  [o \in Externals |-> IF o \in sample.drm.unknown THEN "none" ELSE plug[o]]

\* Unless what X shows changed, every answer is still the one a command would give.
SameAnswers ==
    Undisturbed /\ ~sample.moved =>
        /\ step \in Query =>
              /\ sample.x.connected = XState(sample.x.unknown).connected
              /\ sample.x.geometry = XState(sample.x.unknown).geometry
              /\ sample.x.retained = XState(sample.x.unknown).retained
        /\ step \in Identities => sample.fingerprints = LiveFingerprints
        /\ step \in Layout =>
              /\ sample.current = CurrentProfiles
              /\ sample.undetected = CurrentProfiles \ Detected(LiveFingerprints)

SampleInv == SampleTypes /\ SameScreens /\ SameAnswers

\* What the commands would answer depends on the world alone.
LEMMA WorldKept ==
    UNCHANGED world =>
        /\ Connected' = Connected
        /\ LiveFingerprints' = LiveFingerprints
        /\ CurrentProfiles' = CurrentProfiles
  BY DEF world, Connected, LiveFingerprints, Fingerprint, CurrentProfiles, Shows

LEMMA SampleInit == Init => SampleInv
  BY DEF Init, SampleInv, SampleTypes, SameScreens, SameAnswers, Steps, Query, Identities,
         Layout, NoSample, NoXState

\* A reading adds its answer to the sample, or a fault.
LEMMA ReadingInv ==
    ASSUME SampleInv, UNCHANGED <<world, renamed>>,
           \/ BeginGeneration \/ BeginDrm \/ XrandrQuery \/ XrandrProperties
           \/ AutorandrFingerprint \/ AutorandrDetected \/ AutorandrCurrent \/ EndDrm \/ Publish
    PROVE  SampleInv'
<1> USE DEF SampleInv, SampleTypes, SameScreens, SameAnswers, Undisturbed
<1>1. /\ Connected' = Connected
      /\ LiveFingerprints' = LiveFingerprints
      /\ CurrentProfiles' = CurrentProfiles
      /\ plug' = plug /\ generation' = generation /\ crtc' = crtc /\ primary' = primary
  BY WorldKept DEF world
<1>2. ASSUME NEW at, NEW next \in Steps, CommandFails(at, next)
      PROVE  SampleInv'
  <2>1. PICK fault \in CommandFaults : sample' = [sample EXCEPT !.issues = @ \cup {fault}]
    BY <1>2 DEF CommandFails
  <2>2. /\ sample'.issues = sample.issues \cup {fault}
        /\ sample'.begin = sample.begin
        /\ sample'.x = sample.x
        /\ DOMAIN sample' = DOMAIN NoSample
    BY <2>1 DEF NoSample
  <2> QED
    BY <1>1, <1>2, <2>2 DEF CommandFails, Reads
<1>3. CASE BeginGeneration
  BY <1>1, <1>3 DEF BeginGeneration, Answers, Reading, Reads, NoSample, NoXState, Steps, Query, Identities, Layout
<1>4. CASE BeginDrm
  BY <1>1, <1>4 DEF BeginDrm, Reading, Reads, NoSample, Steps, Query, Identities, Layout
<1>5. CASE XrandrQuery
  <2>1. CASE CommandFails("query", "properties")
    BY <1>2, <2>1 DEF Steps, Query
  <2>2. CASE \E unknown \in UnknownOutputs :
               Reading("query", "properties", unknown, [sample EXCEPT !.x = XState(unknown)])
    <3>1. PICK unknown : sample' = [sample EXCEPT !.x = XState(unknown)] /\ step' = "properties"
      BY <2>2 DEF Reading, Reads
    <3>2. /\ sample'.x = XState(unknown)
          /\ sample'.begin = sample.begin /\ sample'.issues = sample.issues
          /\ sample'.moved = sample.moved
          /\ DOMAIN sample' = DOMAIN NoSample
      BY <3>1 DEF NoSample
    <3>3. XState(unknown).unknown = unknown /\ DOMAIN XState(unknown) = DOMAIN NoXState
      BY DEF XState, NoXState
    <3>4. XState(unknown)' = XState(unknown)
      BY <1>1 DEF XState
    <3>5. sample'.x.unknown = unknown
      BY <3>2, <3>3
    <3>6. XState(sample.x.unknown)' = XState(unknown)
      BY <3>5, <1>1 DEF XState
    <3> QED
      BY <1>1, <3>1, <3>2, <3>3, <3>6 DEF Steps, Query, Identities, Layout
  <2> QED
    BY <1>5, <2>1, <2>2 DEF XrandrQuery
<1>6. CASE XrandrProperties
  <2>1. CASE CommandFails("properties", "fingerprint")
    BY <1>2, <2>1 DEF Steps, Query
  <2>2. CASE ~CommandFails("properties", "fingerprint")
    <3>1. step = "properties" /\ step' = "fingerprint"
      BY <1>6, <2>2 DEF XrandrProperties, Reading, Reads
    <3>2. PICK v : /\ v \in {sample.issues, sample.issues \cup {"torn"}}
                   /\ sample' = [sample EXCEPT !.x.ids = Identified, !.issues = v]
      BY <1>6, <2>2 DEF XrandrProperties, Reading
    <3>3. /\ sample'.x = [sample.x EXCEPT !.ids = Identified]
          /\ sample'.begin = sample.begin /\ sample'.issues = v
          /\ sample'.moved = sample.moved
          /\ DOMAIN sample' = DOMAIN NoSample
      BY <3>2 DEF NoSample
    <3>4. /\ sample'.x.connected = sample.x.connected
          /\ sample'.x.geometry = sample.x.geometry
          /\ sample'.x.retained = sample.x.retained
          /\ sample'.x.unknown = sample.x.unknown
          /\ DOMAIN sample'.x = DOMAIN NoXState
      BY <3>3 DEF NoXState
    <3>5. XState(sample.x.unknown)' = XState(sample.x.unknown)
      BY <3>4, <1>1 DEF XState
    <3>6. sample'.issues = {} => sample.issues = {}
      BY <3>2, <3>3
    <3> QED
      BY <1>1, <3>1, <3>2, <3>3, <3>4, <3>5, <3>6 DEF Steps, Query, Identities, Layout
  <2> QED
    BY <2>1, <2>2
<1>7. ASSUME sample'.x = sample.x, sample'.begin = sample.begin, sample'.issues = sample.issues,
             sample'.moved = sample.moved, DOMAIN sample' = DOMAIN NoSample
      PROVE  XState(sample.x.unknown)' = XState(sample.x.unknown)
  BY <1>1, <1>7 DEF XState
<1>8. CASE AutorandrFingerprint
  <2>1. CASE CommandFails("fingerprint", "detected")
    BY <1>2, <2>1 DEF Steps, Query
  <2>2. CASE Answers("fingerprint", "detected", [sample EXCEPT !.fingerprints = LiveFingerprints])
    <3>1. /\ sample' = [sample EXCEPT !.fingerprints = LiveFingerprints]
          /\ step = "fingerprint" /\ step' = "detected"
      BY <2>2 DEF Answers, Reading, Reads
    <3>2. /\ sample'.x = sample.x /\ sample'.begin = sample.begin
          /\ sample'.issues = sample.issues /\ sample'.moved = sample.moved
          /\ DOMAIN sample' = DOMAIN NoSample
          /\ sample'.fingerprints = LiveFingerprints
      BY <3>1 DEF NoSample
    <3>3. /\ DOMAIN LiveFingerprints = Connected
          /\ \A o \in Connected : LiveFingerprints[o] \in {IF o = Panel THEN "P" ELSE plug[o], "junk"}
      BY DEF LiveFingerprints, Fingerprint
    <3>4. XState(sample.x.unknown)' = XState(sample.x.unknown)
      BY <1>7, <3>2
    <3> QED
      BY <1>1, <3>1, <3>2, <3>3, <3>4 DEF Steps, Query, Identities, Layout
  <2> QED
    BY <1>8, <2>1, <2>2 DEF AutorandrFingerprint
<1>9. CASE AutorandrDetected
  <2>1. CASE CommandFails("detected", "current")
    BY <1>2, <2>1 DEF Steps, Query
  <2>2. CASE Answers("detected", "current",
                     [sample EXCEPT !.detected = Detected(LiveFingerprints)])
    <3>1. /\ sample' = [sample EXCEPT !.detected = Detected(LiveFingerprints)]
          /\ step = "detected" /\ step' = "current"
      BY <2>2 DEF Answers, Reading, Reads
    <3>2. /\ sample'.x = sample.x /\ sample'.begin = sample.begin
          /\ sample'.issues = sample.issues /\ sample'.moved = sample.moved
          /\ DOMAIN sample' = DOMAIN NoSample
          /\ sample'.fingerprints = sample.fingerprints
      BY <3>1 DEF NoSample
    <3>3. XState(sample.x.unknown)' = XState(sample.x.unknown)
      BY <1>7, <3>2
    <3> QED
      BY <1>1, <3>1, <3>2, <3>3 DEF Steps, Query, Identities, Layout
  <2> QED
    BY <1>9, <2>1, <2>2 DEF AutorandrDetected
<1>10. CASE AutorandrCurrent
  <2>1. CASE CommandFails("current", "end_drm")
    BY <1>2, <2>1 DEF Steps, Query
  <2>2. CASE ~CommandFails("current", "end_drm")
    <3>1. /\ sample' = [sample EXCEPT !.current = CurrentProfiles,
                                      !.undetected = CurrentProfiles \ Detected(LiveFingerprints)]
          /\ step = "current" /\ step' = "end_drm"
      BY <1>10, <2>2 DEF AutorandrCurrent, Answers, Reading, Reads
    <3>2. /\ sample'.x = sample.x /\ sample'.begin = sample.begin
          /\ sample'.issues = sample.issues /\ sample'.moved = sample.moved
          /\ DOMAIN sample' = DOMAIN NoSample
          /\ sample'.fingerprints = sample.fingerprints
          /\ sample'.current = CurrentProfiles
          /\ sample'.undetected = CurrentProfiles \ Detected(LiveFingerprints)
      BY <3>1 DEF NoSample
    <3>3. XState(sample.x.unknown)' = XState(sample.x.unknown)
      BY <1>7, <3>2
    <3> QED
      BY <1>1, <3>1, <3>2, <3>3 DEF Steps, Query, Identities, Layout
  <2> QED
    BY <2>1, <2>2
<1>11. CASE EndDrm
  <2>1. PICK unknown : /\ sample' = [sample EXCEPT !.drm = DrmState(unknown)]
                       /\ step = "end_drm" /\ step' = "publish"
    BY <1>11 DEF EndDrm, Reading, Reads
  <2>2. /\ sample'.x = sample.x /\ sample'.begin = sample.begin
        /\ sample'.issues = sample.issues /\ sample'.moved = sample.moved
        /\ DOMAIN sample' = DOMAIN NoSample
        /\ sample'.fingerprints = sample.fingerprints
        /\ sample'.current = sample.current /\ sample'.undetected = sample.undetected
        /\ sample'.drm = DrmState(unknown)
    BY <2>1 DEF NoSample
  <2>3. XState(sample.x.unknown)' = XState(sample.x.unknown)
    BY <1>7, <2>2
  <2>4. sample'.drm.unknown = unknown
        /\ sample'.drm.plug = [o \in Externals |-> IF o \in unknown THEN "none" ELSE plug[o]]
    BY <2>2 DEF DrmState
  <2> QED
    BY <1>1, <2>1, <2>2, <2>3, <2>4 DEF Steps, Query, Identities, Layout
<1>12. CASE Publish
  <2>1. sample' = NoSample /\ step' = "idle"
    BY <1>12 DEF Publish, Reads
  <2> QED
    BY <1>1, <2>1 DEF NoSample, NoXState, Steps, Query, Identities, Layout
<1> QED
  BY <1>3, <1>4, <1>5, <1>6, <1>8, <1>9, <1>10, <1>11, <1>12

\* A replugged screen raises an event, and what X shows else is noted.
LEMMA WorldInv ==
    ASSUME SampleInv, World, UNCHANGED renamed
    PROVE  SampleInv'
<1> USE DEF SampleInv, SampleTypes, SameScreens, SameAnswers, Undisturbed
<1>1. ASSUME NEW o \in Externals, Replug(o)
      PROVE  SampleInv'
  <2>1. /\ generation' = generation + 1 /\ UNCHANGED <<step, sample>>
        /\ plug' \in [Externals -> Monitors \cup {"none"}]
    BY <1>1 DEF Replug, Changes
  <2>2. ~(sample.begin = generation')
    BY <2>1
  <2> QED
    BY <2>1, <2>2
<1>2. ASSUME LayoutMoves, UNCHANGED <<plug, generation, step>>
      PROVE  SampleInv'
  <2>1. /\ sample'.x = sample.x /\ sample'.begin = sample.begin
        /\ sample'.issues = sample.issues /\ sample'.moved = (step /= "idle")
        /\ DOMAIN sample' = DOMAIN NoSample
        /\ sample'.fingerprints = sample.fingerprints
        /\ sample'.drm = sample.drm
    BY <1>2 DEF LayoutMoves, NoSample
  <2>2. Connected' = Connected
    BY <1>2 DEF Connected
  <2> QED
    BY <1>2, <2>1, <2>2 DEF Steps, Query, Identities, Layout
<1>3. ASSUME NEW o \in Externals, Flap(o)
      PROVE  SampleInv'
  <2>1. UNCHANGED <<plug, crtc, primary, generation, step>>
    BY <1>3 DEF Flap, Changes
  <2>2. CASE junk' = junk
    <3>1. sample' = sample
      BY <1>3, <2>2 DEF Flap
    <3>2. /\ Connected' = Connected
          /\ LiveFingerprints' = LiveFingerprints
          /\ CurrentProfiles' = CurrentProfiles
      BY <2>1, <2>2 DEF Connected, LiveFingerprints, Fingerprint, CurrentProfiles, Shows
    <3>3. XState(sample.x.unknown)' = XState(sample.x.unknown)
      BY <2>1, <3>1, <3>2 DEF XState
    <3> QED
      BY <2>1, <3>1, <3>2, <3>3
  <2>3. CASE junk' # junk
    BY <1>2, <1>3, <2>1, <2>3 DEF Flap
  <2> QED
    BY <2>2, <2>3
<1>4. ASSUME NEW p \in Installed, LoadProfile(p)
      PROVE  SampleInv'
  BY <1>2, <1>4 DEF LoadProfile, Changes
<1>5. ASSUME NEW o \in Outputs, ServiceMoves(o)
      PROVE  SampleInv'
  BY <1>2, <1>5 DEF ServiceMoves, Changes
<1> QED
  BY <1>1, <1>3, <1>4, <1>5 DEF World

LEMMA SampleNext == SampleInv /\ [Next]_vars => SampleInv'
<1> SUFFICES ASSUME SampleInv, [Next]_vars
             PROVE  SampleInv'
  OBVIOUS
<1>1. CASE UNCHANGED vars
  <2>1. /\ UNCHANGED <<plug, generation, step, sample, crtc, primary, renamed>>
        /\ UNCHANGED world
    BY <1>1 DEF vars, world
  <2>2. XState(sample.x.unknown)' = XState(sample.x.unknown)
    BY <2>1, WorldKept DEF XState
  <2> QED
    BY <2>1, <2>2, WorldKept DEF SampleInv, SampleTypes, SameScreens, SameAnswers, Undisturbed
<1>2. CASE Next /\ World
  BY <1>2, WorldInv DEF Next
<1>3. CASE Next /\ SampleStep
  <2>1. UNCHANGED <<world, renamed>>
    BY <1>3 DEF Next, SampleStep, BeginGeneration, BeginDrm, XrandrQuery, XrandrProperties,
                AutorandrFingerprint, AutorandrDetected, AutorandrCurrent, EndDrm, Publish,
                CommandFails, Answers, Reading, Reads
  <2> QED
    BY <1>3, <2>1, ReadingInv DEF SampleStep
<1> QED
  BY <1>1, <1>2, <1>3 DEF Next

-----------------------------------------------------------------------------
(* Publication. *)

\* A sample without a reason to be invalid is complete and consistent.
LEMMA ValidIs ==
    ASSUME NEW s, s.issues \subseteq CommandFaults \cup {"torn"}
    PROVE  /\ InvalidityReason(s) # "raised_inconsistent"
           /\ InvalidityReason(s) = "none" =>
                 s.begin = s.end /\ s.issues = {} /\ ~Inconsistent(s)
<1>1. \/ s.begin # s.end
      \/ s.first # s.drm
      \/ "timed_out" \in s.issues \/ "inconsistent" \in s.issues
      \/ "parse_failed" \in s.issues \/ "torn" \in s.issues
      \/ s.begin = s.end /\ s.issues = {}
  BY DEF CommandFaults
<1> QED
  BY <1>1 DEF InvalidityReason

\* What is published is invalid, or the observation of a coherent sample.
LEMMA PublishedIs ==
    ASSUME SampleInv, Publish
    PROVE  \/ observation'.reason \notin {"none", "raised_inconsistent"}
           \/ \E s : /\ Coherent(s)
                     /\ Built(s, observation')
                     /\ ~s.moved => Present(s)
<1> DEFINE s == [sample EXCEPT !.end = generation]
<1>1. /\ DOMAIN sample = DOMAIN NoSample
      /\ sample.issues \subseteq CommandFaults \cup {"torn"}
      /\ step = "publish"
      /\ plug \in [Externals -> Monitors \cup {"none"}]
  BY DEF SampleInv, SampleTypes, Publish, Reads
<1>2. /\ s.begin = sample.begin /\ s.end = generation /\ s.issues = sample.issues
      /\ s.drm = sample.drm /\ s.x = sample.x /\ s.fingerprints = sample.fingerprints
      /\ s.current = sample.current /\ s.undetected = sample.undetected
      /\ s.moved = sample.moved
  BY <1>1 DEF NoSample
<1> DEFINE f == Facts(s)
<1>3. f.reason = InvalidityReason(s)
  BY DEF Facts
<1>4. /\ f.reason # "none" => observation' = f
      /\ f.reason = "none" =>
            \E o \in AttachPlanningConfiguration(f) :
                observation' = IF o.reason = "none" /\ ~ValidateConsistentSample(o)
                               THEN [reason |-> "raised_inconsistent"] ELSE o
  <2> DEFINE built == IF f.reason = "none" THEN AttachPlanningConfiguration(f) ELSE {f}
  <2>1. \E o \in built :
          observation' = IF o.reason = "none" /\ ~ValidateConsistentSample(o)
                         THEN [reason |-> "raised_inconsistent"] ELSE o
    BY DEF Publish
  <2> HIDE DEF f
  <2> QED
    BY <2>1
<1> HIDE DEF s
<1>5. CASE f.reason # "none"
  BY <1>1, <1>2, <1>3, <1>4, <1>5, ValidIs
<1>6. CASE f.reason = "none"
  <2>1. Undisturbed /\ ~Inconsistent(s)
    BY <1>1, <1>2, <1>3, <1>6, ValidIs DEF Undisturbed
  <2>2. sample.drm.unknown = {} /\ sample.x.unknown = {}
    BY <1>2, <2>1 DEF Inconsistent
  <2>3. sample.drm.plug = plug
    BY <1>1, <2>1, <2>2 DEF SampleInv, SameScreens
  <2>4. Coherent(s)
    <3>1. /\ DOMAIN sample.fingerprints = Connected
          /\ \A o \in Connected :
                sample.fingerprints[o] \in {IF o = Panel THEN "P" ELSE plug[o], "junk"}
      BY <1>1, <2>1 DEF SampleInv, SameScreens, Identities, Query
    <3> QED
      BY <1>1, <1>2, <2>1, <2>3, <3>1 DEF Coherent, Seen
  <2>5. ~s.moved => Present(s)
    <3> SUFFICES ASSUME ~s.moved
                 PROVE  Present(s)
      OBVIOUS
    <3>1. /\ sample.x.connected = XState({}).connected
          /\ sample.x.geometry = XState({}).geometry
          /\ sample.x.retained = XState({}).retained
          /\ sample.fingerprints = LiveFingerprints
          /\ sample.current = CurrentProfiles
          /\ sample.undetected = CurrentProfiles \ Detected(LiveFingerprints)
      BY <1>1, <1>2, <2>1, <2>2 DEF SampleInv, SameAnswers, Query, Identities, Layout
    <3>2. /\ XState({}).connected = Connected
          /\ XState({}).geometry = [o \in Connected |-> crtc[o]]
          /\ XState({}).retained = {o \in Outputs \ Connected : crtc[o] /= "off"}
      BY DEF XState
    <3> QED
      BY <1>2, <3>1, <3>2 DEF Present
  <2>6. PICK o \in AttachPlanningConfiguration(f) :
          observation' = IF o.reason = "none" /\ ~ValidateConsistentSample(o)
                         THEN [reason |-> "raised_inconsistent"] ELSE o
    BY <1>4, <1>6
  <2>7. CASE o = [reason |-> "raised_changed"]
    BY <2>6, <2>7
  <2>8. CASE Built(s, o)
    <3>1. ValidateConsistentSample(o)
      BY <2>4, <2>8, BuiltConsistent
    <3>2. observation' = o
      BY <2>6, <3>1
    <3> QED
      BY <2>4, <2>5, <2>8, <3>2
  <2> QED
    BY <1>6, <2>6, <2>7, <2>8, AttachedIsBuilt
<1> QED
  BY <1>5, <1>6

\* The primary mark of an exact profile is checked as it is found.
LEMMA ExactPrimary ==
    ASSUME NEW s, NEW m \in Eligible(s), m.profile \in ExactProfile(s)
    PROVE  PrimaryMatchesSavedConfig(m, s.x)
<1>1. PICK e \in Sole(Eligible(s)) : e.profile = m.profile /\ PrimaryMatchesSavedConfig(e, s.x)
  BY DEF ExactProfile
<1> QED
  BY <1>1, SoleElement

Published ==
    /\ EligibleIsThere
    /\ NotStranded
    /\ NeverGuessed
    /\ ExactIsShown
    /\ ConstructionSucceeds

LEMMA PublishInv ==
    ASSUME SampleInv, Publish, UNCHANGED renamed
    PROVE  Published'
<1>1. CASE observation'.reason \notin {"none", "raised_inconsistent"}
  BY <1>1 DEF Published, EligibleIsThere, NotStranded, NeverGuessed, ExactIsShown,
              ConstructionSucceeds, Valid
<1>2. CASE \E s : Coherent(s) /\ Built(s, observation') /\ (~s.moved => Present(s))
  <2>1. PICK s : Coherent(s) /\ Built(s, observation') /\ (~s.moved => Present(s))
    BY <1>2
  <2>2. /\ observation'.reason = "none"
        /\ observation'.drm = s.drm /\ observation'.x = s.x
        /\ observation'.kernel = KernelConnected(s.drm)
        /\ observation'.eligible = Eligible(s) /\ observation'.detected = s.detected
        /\ observation'.exact = ExactProfile(s)
        /\ observation'.undetected = s.undetected /\ observation'.moved = s.moved
    BY <2>1, SameOutputs DEF Built
  <2>3. \A o : MonitorOn(o)' = Seen(s.drm, o)
    BY <2>2 DEF MonitorOn, Seen
  <2>4. \A p : MonitorMatchings(p)' = Suits(s.drm, p)
    BY <2>2 DEF MonitorMatchings, MonitorOn, Suits, Candidates, Seen
  <2>5. Fitting' = Fits(s.drm)
    BY <2>4 DEF Fitting, Fits
  <2>6. BaseProven(observation.drm, observation.x)' = BaseProven(s.drm, s.x)
    BY <2>2 DEF BaseProven, BaseIdentity, KernelNames, NameOf, Translated
  <2>7. EligibleIsThere'
    <3> SUFFICES ASSUME NEW m \in Eligible(s), NEW t \in DOMAIN m.mapping
                 PROVE  FingerprintMatches(Setup(m.profile)[t], Seen(s.drm, m.mapping[t]))
      BY <2>2, <2>3 DEF EligibleIsThere
    <3>1. m.mapping \in Suits(s.drm, m.profile)
      BY <2>1, EligibleSuits
    <3>2. DOMAIN m.mapping = DOMAIN Setup(m.profile)
      BY <2>1, EligibleCovers
    <3>3. m.mapping[t] \in Candidates(s.drm, m.profile)[t]
      BY <3>1, <3>2, MatchingIs DEF Suits, Candidates
    <3> QED
      BY <3>2, <3>3 DEF Candidates
  <2>8. NotStranded'
    <3> SUFFICES ASSUME BaseProven(s.drm, s.x) = KernelConnected(s.drm),
                        IsInjective([o \in KernelConnected(s.drm) |-> Seen(s.drm, o)]),
                        Sole(Fits(s.drm)) # {}
                 PROVE  {m.profile : m \in Eligible(s)} = Fits(s.drm)
      BY <2>2, <2>3, <2>5, <2>6 DEF NotStranded, MonitorOn, Seen
    <3>1. PICK q : Fits(s.drm) = {q}
      BY SoleElement
    <3>2. \A o, e \in KernelConnected(s.drm) : Seen(s.drm, o) = Seen(s.drm, e) => o = e
      BY DEF IsInjective
    <3> QED
      BY <2>1, <3>1, <3>2, FittingIsEligible
  <2>9. NeverGuessed'
    <3> SUFFICES ASSUME NEW m \in Eligible(s), m.profile \notin s.detected,
                        \A a \in Wildcards(m.profile) : m.mapping[a] \in BaseProven(s.drm, s.x)
                 PROVE  Fits(s.drm) = {m.profile} /\ Suits(s.drm, m.profile) = {m.mapping}
      BY <2>2, <2>4, <2>5, <2>6 DEF NeverGuessed
    <3> QED
      BY <2>1, FallbackIsSole
  <2>10. ExactIsShown'
    <3> SUFFICES ASSUME ~s.moved, NEW m \in Eligible(s),
                        m.profile \in ExactProfile(s) \ s.undetected
                 PROVE  /\ GeometryMatchesSavedConfig(m, s.x)
                        /\ PrimaryMatchesSavedConfig(m, s.x)
                        /\ s.x.retained = {}
      BY <2>2 DEF ExactIsShown, GeometryMatchesSavedConfig, PrimaryMatchesSavedConfig
    <3> QED
      BY <2>1, ExactShown, ExactPrimary
  <2>11. ConstructionSucceeds'
    BY <2>2 DEF ConstructionSucceeds
  <2> QED
    BY <2>7, <2>8, <2>9, <2>10, <2>11 DEF Published
<1> QED
  BY <1>1, <1>2, PublishedIs

\* Nothing else touches the observation.
LEMMA PublishedNext ==
    SampleInv /\ Published /\ [Next]_vars => Published'
<1> SUFFICES ASSUME SampleInv, Published, [Next]_vars
             PROVE  Published'
  OBVIOUS
<1>1. CASE UNCHANGED <<observation, renamed>>
  <2>1. observation' = observation
    BY <1>1
  <2>2. /\ BaseProven(observation.drm, observation.x)' = BaseProven(observation.drm, observation.x)
        /\ \A p : MonitorMatchings(p)' = MonitorMatchings(p)
        /\ Fitting' = Fitting
        /\ Valid' <=> Valid
        /\ [o \in KernelConnected(observation.drm) |-> MonitorOn(o)]'
              = [o \in KernelConnected(observation.drm) |-> MonitorOn(o)]
    <3>1. BaseProven(observation.drm, observation.x)' = BaseProven(observation.drm, observation.x)
      BY <1>1 DEF BaseProven, BaseIdentity, KernelNames, NameOf, Translated
    <3>2. \A p : MonitorMatchings(p)' = MonitorMatchings(p)
      BY <2>1 DEF MonitorMatchings, MonitorOn
    <3>3. Fitting' = Fitting
      BY <3>2 DEF Fitting
    <3> QED
      BY <2>1, <3>1, <3>2, <3>3 DEF Valid, MonitorOn
  <2>3. EligibleIsThere'
    BY <2>1 DEF Published, EligibleIsThere, Valid, MonitorOn
  <2>4. NotStranded'
    BY <2>1, <2>2 DEF Published, NotStranded
  <2>5. NeverGuessed'
    BY <2>1, <2>2 DEF Published, NeverGuessed
  <2>6. ExactIsShown'
    BY <2>1, <2>2 DEF Published, ExactIsShown, GeometryMatchesSavedConfig, PrimaryMatchesSavedConfig
  <2>7. ConstructionSucceeds'
    BY <2>1 DEF Published, ConstructionSucceeds
  <2> QED
    BY <2>3, <2>4, <2>5, <2>6, <2>7 DEF Published
<1>2. CASE Publish /\ UNCHANGED renamed
  BY <1>2, PublishInv
<1>3. Next => (UNCHANGED <<observation, renamed>> \/ (Publish /\ UNCHANGED renamed))
  BY DEF Next, SampleStep, World, BeginGeneration, Replug, Flap, LoadProfile, ServiceMoves, Changes
<1> QED
  BY <1>1, <1>2, <1>3 DEF vars

LEMMA SampleAlways == Spec => [](SampleInv /\ Published)
<1>1. Init => SampleInv /\ Published
  BY SampleInit DEF Init, Published, EligibleIsThere, NotStranded, NeverGuessed, ExactIsShown,
                    ConstructionSucceeds, Valid
<1>2. SampleInv /\ Published /\ [Next]_vars => (SampleInv /\ Published)'
  BY SampleNext, PublishedNext
<1> QED
  BY <1>1, <1>2, PTL DEF Spec

\* However the answers interleave with replugs and faults, and whatever is saved, the
\* outputs of an eligible profile carried the monitors it was saved for when the
\* sample ended (observe, _invalidity_reason).
THEOREM EligibleMonitorsAreThere == Spec => []EligibleIsThere
<1>1. SampleInv /\ Published => EligibleIsThere
  BY DEF Published
<1> QED
  BY <1>1, SampleAlways, PTL

\* Where every base block is readable and the monitors differ, the only saved
\* profile that suits them is eligible, whatever X's copy of an EDID holds
\* (_base_identity_eligibility).
THEOREM NoScreenIsStranded == Spec => []NotStranded
<1>1. SampleInv /\ Published => NotStranded
  BY DEF Published
<1> QED
  BY <1>1, SampleAlways, PTL

\* A profile that autorandr did not detect is eligible only if no other profile and
\* no other way to match its outputs suits the monitors, but for a wildcard on an
\* output that nobody can read (_base_identity_eligibility, unique_bijection).
THEOREM BaseIdentityNeverGuesses == Spec => []NeverGuessed
<1>1. SampleInv /\ Published => NeverGuessed
  BY DEF Published
<1> QED
  BY <1>1, SampleAlways, PTL

\* A profile found exact is what the screens show, unless X changed between the
\* answers or autorandr called an undetected profile current (_exact_profile).
THEOREM ExactProfileIsShown == Spec => []ExactIsShown
<1>1. SampleInv /\ Published => ExactIsShown
  BY DEF Published
<1> QED
  BY <1>1, SampleAlways, PTL

\* What the observer derives from a consistent sample passes every check of
\* CanonicalObservation._validate_consistent_sample.
THEOREM ObservationIsBuilt == Spec => []ConstructionSucceeds
<1>1. SampleInv /\ Published => ConstructionSucceeds
  BY DEF Published
<1> QED
  BY <1>1, SampleAlways, PTL

=============================================================================
