--------------------------- MODULE IndexLifecycle ---------------------------
(***************************************************************************)
(* What an indexing promises to those who look at the repository's card    *)
(* (indexing_status in src/db/models.py, the comments of run_indexing and  *)
(* parse_repo): the card goes through its states in order, the stored      *)
(* index is replaced once per request and as a whole, and only an index    *)
(* with its own evidence is ever shown as done.                            *)
(***************************************************************************)
CONSTANT Repos

VARIABLES
    card,    \* the repository's indexing_status
    fresh,   \* the stored index is already that of the indexing under way
    whole    \* the stored evidence is that of the stored index

vars == <<card, fresh, whole>>

InProgress == {"collecting", "parsing"}
Settled == {"absent", "done", "failed"}

TypeOK ==
    /\ card \in [Repos -> InProgress \cup Settled]
    /\ fresh \in [Repos -> BOOLEAN]
    /\ whole \in [Repos -> BOOLEAN]

Init ==
    /\ card = [repo \in Repos |-> "absent"]
    /\ fresh = [repo \in Repos |-> FALSE]
    /\ whole = [repo \in Repos |-> FALSE]

Show(repo, from, to) == card[repo] = from /\ card' = [card EXCEPT ![repo] = to]

\* Registered, or to be indexed again; what is stored stays on screen.
Request(repo) ==
    /\ card[repo] \in Settled
    /\ card' = [card EXCEPT ![repo] = "collecting"]
    /\ UNCHANGED <<fresh, whole>>

Parse(repo) == Show(repo, "collecting", "parsing") /\ UNCHANGED <<fresh, whole>>

\* The new index takes the old one's place; it may have nothing to link.
Replace(repo) ==
    /\ card[repo] = "parsing" /\ ~fresh[repo]
    /\ fresh' = [fresh EXCEPT ![repo] = TRUE]
    /\ \E w \in BOOLEAN : whole' = [whole EXCEPT ![repo] = w]
    /\ UNCHANGED card

Link(repo) ==
    /\ card[repo] = "parsing" /\ fresh[repo]
    /\ whole' = [whole EXCEPT ![repo] = TRUE]
    /\ UNCHANGED <<card, fresh>>

Finish(repo) ==
    /\ fresh[repo] /\ whole[repo]
    /\ Show(repo, "parsing", "done")
    /\ fresh' = [fresh EXCEPT ![repo] = FALSE]
    /\ UNCHANGED whole

\* One indexing fails, or all of a server that died.
Fail(failing) ==
    /\ failing # {}
    /\ \A repo \in failing : card[repo] \in InProgress
    /\ card' = [repo \in Repos |-> IF repo \in failing THEN "failed" ELSE card[repo]]
    /\ fresh' = [repo \in Repos |-> fresh[repo] /\ repo \notin failing]
    /\ UNCHANGED whole

Next ==
    \/ \E repo \in Repos :
         Request(repo) \/ Parse(repo) \/ Replace(repo) \/ Link(repo) \/ Finish(repo)
    \/ \E failing \in SUBSET Repos : Fail(failing)

Spec == Init /\ [][Next]_vars
-----------------------------------------------------------------------------
\* What a reader may conclude from the card alone: a repository shown done has the
\* evidence of its own index, and between two indexings none is half replaced.
DoneIsWhole ==
    \A repo \in Repos :
        /\ card[repo] = "done" => whole[repo]
        /\ card[repo] \in Settled => ~fresh[repo]
=============================================================================
