----------------------------- MODULE MCDoDriver -----------------------------
(***************************************************************************)
(* Instances of DoDriver: every body with at most MaxAwaits awaits.        *)
(***************************************************************************)
EXTENDS DoDriver, SequencesExt

CONSTANT MaxAwaits

SmallBodies ==
    [awaits : BoundedSeq({"success", "failure", "defect"}, MaxAwaits),
     ends : {"success", "defect"}]

=============================================================================
