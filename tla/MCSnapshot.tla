----------------------------- MODULE MCSnapshot -----------------------------
(* A desk with two connectors, and a catalogue of saved profiles.          *)
EXTENDS Snapshot, MappingSearch

(* The tables have names of their own: TLC evaluates a definition once, but *)
(* the one put for a constant at each use.                                 *)
Connectors == {"DP1", "DP2"}
Screens == {"M", "N"}
KernelNaming == [eDP |-> "eDP", DP1 |-> "card0-DP1", DP2 |-> "card0-DP2"]
NamesInSysfs == KernelNaming

SavedProfiles ==
    [laptop |-> [setup |-> [eDP |-> "P"],
                 config |-> [eDP |-> "full"], primary |-> "eDP"],
     deskM  |-> [setup |-> [eDP |-> "P", DP1 |-> "M"],
                 config |-> [eDP |-> "off", DP1 |-> "m1"], primary |-> "DP1"],
     deskN  |-> [setup |-> [eDP |-> "*", DP1 |-> "N"],
                 config |-> [eDP |-> "full", DP1 |-> "n1"], primary |-> "none"],
     wideM  |-> [setup |-> [eDP |-> "P", DP1 |-> "M"],
                 config |-> [eDP |-> "full", DP1 |-> "m2"], primary |-> "DP1"],
     pair   |-> [setup |-> [eDP |-> "P", DP1 |-> "M", DP2 |-> "N"],
                 config |-> [eDP |-> "full", DP1 |-> "m1", DP2 |-> "n1"],
                 primary |-> "DP1"],
     twins  |-> [setup |-> [eDP |-> "P", DP1 |-> "M", DP2 |-> "M"],
                 config |-> [eDP |-> "full", DP1 |-> "m1", DP2 |-> "m2"],
                 primary |-> "DP1"],
     guest  |-> [setup |-> [eDP |-> "P", DP1 |-> "N", DP2 |-> "N"],
                 config |-> [eDP |-> "off", DP1 |-> "n1", DP2 |-> "preferred"],
                 primary |-> "DP1"]]

Catalogue == SavedProfiles

Desks == {"laptop", "deskM", "wideM", "deskN", "pair", "twins"}
DesksAndGuest == Desks \cup {"guest"}
PanelAndFirst == {"eDP", "DP1"}

\* The search agrees with its definition on every graph of candidates between up
\* to three saved and three live outputs, whichever of the latter are required.
ASSUME SearchAssumption ==
    \A n \in 0..3 : \A candidates \in [1..n -> SUBSET (1..3)], required \in SUBSET (1..3) :
        SearchIsExact(candidates, required)

=============================================================================
