-------------------------- MODULE MCEvidenceArtifacts --------------------------
(***************************************************************************)
(* Two requests of one venue.  The first asks a camera for the interval    *)
(* 1..3, which recordings 2 and 3 cover together and which recording 1     *)
(* only touches; it names no asset.  The second names recording 3 and      *)
(* carries every link, for the instant 3.  Recording 4 belongs to another  *)
(* venue.                                                                  *)
(***************************************************************************)
EXTENDS EvidenceArtifacts, TLC

Symmetry == Permutations(Workers)

Video(asset, venue, from, to, fate) ==
    [asset |-> asset, tenant |-> "t", venue |-> venue, camera |-> "c1",
     session |-> "s", from |-> from, to |-> to, fate |-> fate]

MCRecordings ==
    {Video(1, "v", 0, 1, {"sound"}), Video(2, "v", 0, 2, {"sound", "expired"}),
     Video(3, "v", 2, 4, {"sound", "corrupt"}), Video(4, "other", 0, 4, {"sound"})}

Evidence(ref, asset, from, to, at, links) ==
    [ref |-> ref, event |-> <<"event", ref>>, tenant |-> "t", venue |-> "v",
     session |-> "s", camera |-> "c1", config |-> "cv", rule |-> "dwell", version |-> "v1",
     asset |-> asset, from |-> from, to |-> to, at |-> at,
     frames |-> links, detector |-> links, tracker |-> links]

MCRequest ==
    [r1 |-> Evidence("r1", Nil, 1, 3, 3, Nil), r2 |-> Evidence("r2", 3, Nil, Nil, 3, "l")]

MCRuleEvent ==
    [r \in {"r1", "r2"} |->
        [event |-> <<"event", r>>, tenant |-> "t", venue |-> "v", session |-> "s",
         camera |-> "c1", config |-> "cv", rule |-> "dwell", version |-> "v1", at |-> 3]]

\* A class nobody knows stands for the default; the default on hold; a hold by class.
Unknown == [class |-> "evidence", hold |-> FALSE]
OnHold == [class |-> DefaultClass, hold |-> TRUE]
LegalHold == [class |-> Held, hold |-> FALSE]

MCTerms == {[r1 |-> Unknown, r2 |-> OnHold], [r1 |-> LegalHold, r2 |-> Unknown]}

Actor(venues, permissions) ==
    [tenant |-> "t", venues |-> venues, permissions |-> permissions, active |-> TRUE]

MCActors ==
    {Actor({}, {"evidence_read"}), Actor({"other"}, {"evidence_read", "evidence_manage"}),
     Actor({"v"}, {"evidence_read", "evidence_manage"})}

MCDuration == [evidence_365_days |-> 1, report_730_days |-> 2]
=============================================================================
