------------------------------ MODULE HostServices ------------------------------
(***************************************************************************)
(* The containers of the calendar on its host, as far as the cold backup   *)
(* and the release command act on them through Docker.  A `docker compose  *)
(* stop` that is cut off by a timeout or a signal may be carried out by    *)
(* the daemon later; a start takes effect at once or not at all.           *)
(***************************************************************************)
EXTENDS FiniteSets

CONSTANTS
    Runs    \* runs of the cold backup

VARIABLES
    state,       \* of each container, as Docker reports it
    cut,         \* services whose stop was cut off and may still come
    stranded,    \* services such a stop has put out of service
    open,        \* backup runs that are archiving the stores
    warm,        \* per run, services that ran meanwhile or had ended badly before it
    cooled       \* per run, those of them that have ended gracefully since

hostVars == <<state, cut, stranded, open, warm, cooled>>

Services == {"widget", "server", "radicale"}

HostTypeOK ==
    /\ state \in [Services -> {"up", "exited", "killed", "created"}]
    /\ cut \subseteq Services /\ stranded \subseteq Services
    /\ open \subseteq Runs /\ {warm, cooled} \subseteq [Runs -> SUBSET Services]

InitHost ==
    /\ state = [s \in Services |-> "up"]
    /\ cut = {} /\ stranded = {}
    /\ open = {} /\ warm = [r \in Runs |-> {}] /\ cooled = [r \in Runs |-> {}]

AllUp == \A s \in Services : state[s] = "up"

\* The containers of S run from now on.
Start(S) ==
    /\ state' = [s \in Services |-> IF s \in S THEN "up" ELSE state[s]]
    /\ stranded' = stranded \ S
    /\ warm' = [r \in Runs |-> IF r \in open THEN warm[r] \union S ELSE warm[r]]
    /\ cooled' = [r \in Runs |-> IF r \in open THEN cooled[r] \ S ELSE cooled[r]]

\* One that runs ends within the grace of its stop (exit code 0 or 143) or is killed
\* after it; the others stay as they are.
Stop(s) ==
    \/ /\ state[s] = "up"
       /\ \E end \in {"exited", "killed"} :
             /\ state' = [state EXCEPT ![s] = end]
             /\ cooled' = [r \in Runs |-> cooled[r] \union
                              (IF end = "exited" THEN {s} \cap warm[r] ELSE {})]
             /\ UNCHANGED warm
    \/ state[s] # "up" /\ UNCHANGED <<state, warm, cooled>>

\* The daemon carries out a stop nobody waits for any more.
LateStop(s) ==
    /\ s \in cut
    /\ Stop(s)
    /\ cut' = cut \ {s}
    /\ stranded' = IF state[s] = "up" THEN stranded \union {s} ELSE stranded
    /\ UNCHANGED open

=============================================================================
