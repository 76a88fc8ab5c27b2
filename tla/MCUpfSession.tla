---------------------------- MODULE MCUpfSession ----------------------------
(* Instances of UpfSession for TLC. *)
EXTENDS UpfSession

\* Small maps, so that the trackers run empty.
SmallPool == [far |-> 2, qer |-> 1, urr |-> 1]

\* Room for every rule two sessions can have.
AmplePool == [far |-> 2, qer |-> 2, urr |-> 2]

\* One rule id of a kind, or none for the kinds a run leaves out.
FarUrr == [far |-> {1}, qer |-> {}, urr |-> {1}]
FarQer == [far |-> {1}, qer |-> {1}, urr |-> {}]
=============================================================================
