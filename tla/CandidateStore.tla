--------------------------- MODULE CandidateStore ---------------------------
(***************************************************************************)
(* What the configuration manager promises its clients: one saved config   *)
(* that survives a restart and at most one staged config.  The saved       *)
(* config changes only by becoming, in one step, the config that is        *)
(* staged, or what a disk that reports success has kept of it; a staged    *)
(* config is replaced or dropped as a whole.                               *)
(***************************************************************************)
CONSTANTS
    Configs,   \* the configs the schema admits
    NoConfig,  \* no config is staged
    Damaged    \* what the disk may keep of a config; {} if it can be relied on

VARIABLES saved, staged

Init ==
    /\ saved \in Configs
    /\ staged = NoConfig

Stage ==
    /\ staged' \in Configs
    /\ UNCHANGED saved

Commit ==
    /\ staged # NoConfig
    /\ saved' \in {staged} \cup Damaged
    /\ staged' = NoConfig

Discard ==
    /\ staged' = NoConfig
    /\ UNCHANGED saved

Next == Stage \/ Commit \/ Discard

Spec == Init /\ [][Next]_<<saved, staged>>

=============================================================================
