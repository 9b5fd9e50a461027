----------------------------- MODULE SavedLocations -----------------------------
(***************************************************************************)
(* The saved locations of one customer                                     *)
(* (backend/app/modules/saved_locations/service.py): at most               *)
(* MAX_SAVED_LOCATIONS, although creations run at the same time in threads *)
(* of the backend.  A creation locks the customer's row, counts, inserts   *)
(* and commits; run under an Idempotency-Key, its transaction already      *)
(* holds the lock that the foreign key of the reserved record takes on the *)
(* same row.  The locks are PostgreSQL's row locks and last until the      *)
(* transaction ends.                                                       *)
(***************************************************************************)
EXTENDS Integers, FiniteSets

CONSTANTS
  Requests,    \* creations in flight
  Keys,        \* Idempotency-Keys of the customer; None for no header
  Locations,   \* identities of saved_locations rows
  MAX_SAVED_LOCATIONS,
  None

ASSUME LimitAssumption == MAX_SAVED_LOCATIONS \in Nat

VARIABLES
  call, record, made,   \* see Idempotency
  saved,    \* committed rows of the customer
  held,     \* held[r]: locks the transaction of r has on the customer's row
  counted   \* counted[r]: the count has allowed the insertion

serverVars == <<call, record, made>>
vars == <<serverVars, saved, held, counted>>

(* Contents do not matter here: every creation asks for the same.          *)
Content == "location"

Server == INSTANCE Idempotency
            WITH Slots <- Keys, Payloads <- {Content}, Bodies <- Locations,
                 NoSlot <- None, NoPayload <- None, NoBody <- None

ForeignKeyLock == "FOR KEY SHARE"

(* Mutants: the lock of the foreign key is thought to be enough; the       *)
(* plain lock, which conflicts with it.                                    *)
SharedLock == "FOR KEY SHARE"
PlainLock == "FOR UPDATE"

CreationLock == "FOR NO KEY UPDATE"

(* The pairs of row locks two transactions cannot hold together, as the    *)
(* PostgreSQL manual lists them.                                           *)
Conflicts ==
  {{"FOR KEY SHARE", "FOR UPDATE"}, {"FOR NO KEY UPDATE"},
   {"FOR NO KEY UPDATE", "FOR UPDATE"}, {"FOR UPDATE"}}

Grantable(r, lock) ==
  \A q \in Requests \ {r} : \A l \in held[q] : {l, lock} \notin Conflicts

Hold(r, locks) == held' = [held EXCEPT ![r] = locks]

Init ==
  /\ Server!Init
  /\ saved = {}
  /\ held = [r \in Requests |-> {}]
  /\ counted = [r \in Requests |-> FALSE]

Post(r, k) ==
  /\ Server!Ask(r, k, Content)
  /\ UNCHANGED <<saved, held, counted>>

Look(r) ==
  /\ Server!Look(r)
  /\ UNCHANGED <<saved, held, counted>>

(* Inserting the record locks the customer it refers to.                   *)
Reserve(r) ==
  /\ Server!Reserve(r)
  /\ IF Server!Recorded(r)
     THEN UNCHANGED held
     ELSE Grantable(r, ForeignKeyLock) /\ Hold(r, held[r] \cup {ForeignKeyLock})
  /\ UNCHANGED <<saved, counted>>

LockCustomer(r) ==
  /\ call[r].at = "acting"
  /\ CreationLock \notin held[r]
  /\ Grantable(r, CreationLock)
  /\ Hold(r, held[r] \cup {CreationLock})
  /\ UNCHANGED <<serverVars, saved, counted>>

Rollback(r) ==
  /\ Server!Fail(r)
  /\ Hold(r, {})
  /\ counted' = [counted EXCEPT ![r] = FALSE]
  /\ UNCHANGED saved

(* Mutant: off by one.                                                     *)
CountUpToLimit(r) ==
  /\ CreationLock \in held[r]
  /\ ~counted[r]
  /\ Cardinality(saved) <= MAX_SAVED_LOCATIONS
  /\ counted' = [counted EXCEPT ![r] = TRUE]
  /\ UNCHANGED <<serverVars, saved, held>>

(* The count reads what is committed when it runs.                         *)
Count(r) ==
  /\ CreationLock \in held[r]
  /\ ~counted[r]
  /\ \/ Cardinality(saved) >= MAX_SAVED_LOCATIONS /\ Rollback(r)
     \/ /\ Cardinality(saved) < MAX_SAVED_LOCATIONS
        /\ counted' = [counted EXCEPT ![r] = TRUE]
        /\ UNCHANGED <<serverVars, saved, held>>

Save(r) ==
  /\ counted[r]
  /\ \E l \in Locations \ saved :
       /\ Server!Commit(r, l)
       /\ saved' = saved \cup {l}
  /\ Hold(r, {})
  /\ counted' = [counted EXCEPT ![r] = FALSE]

(* A deletion locks its own row only.                                      *)
Delete(l) ==
  /\ l \in saved
  /\ saved' = saved \ {l}
  /\ UNCHANGED <<serverVars, held, counted>>

Next ==
  \/ \E r \in Requests :
       \/ \E k \in Keys \cup {None} : Post(r, k)
       \/ Look(r) \/ Reserve(r) \/ LockCustomer(r) \/ Count(r) \/ Save(r)
       \/ Rollback(r)
  \/ \E l \in Locations : Delete(l)

Spec == Init /\ [][Next]_vars

(* Threads run; PostgreSQL queues those that wait for a lock.              *)
Fairness ==
  \A r \in Requests :
    /\ WF_vars(Look(r)) /\ WF_vars(Count(r)) /\ WF_vars(Save(r))
    /\ SF_vars(Reserve(r)) /\ SF_vars(LockCustomer(r))

FairSpec == Spec /\ Fairness

-------------------------------------------------------------------------------
(* Concurrent creations for one customer pass through the same lock and    *)
(* cannot make one location too many (docs/API.md, on saved locations).    *)
LimitHolds == Cardinality(saved) <= MAX_SAVED_LOCATIONS

(* What makes it inductive: the creations that are past the lock are one,  *)
(* and what it has counted can only have become less.                      *)
OneCounter ==
  /\ saved \subseteq Locations /\ IsFiniteSet(saved)
  /\ held \in [Requests -> SUBSET {ForeignKeyLock, CreationLock}]
  /\ counted \in [Requests -> BOOLEAN]
  /\ \A r, q \in Requests :
       CreationLock \in held[r] \cap held[q] => r = q
  /\ \A r \in Requests :
       counted[r] => /\ CreationLock \in held[r]
                     /\ Cardinality(saved) < MAX_SAVED_LOCATIONS

(* Creations never wait for each other for ever, though each one holds the *)
(* foreign key's lock on the row when it asks for a stronger one: every    *)
(* request is answered, and without the help of an error.                  *)
EveryCreationAnswered ==
  \A r \in Requests : call[r].at \in Server!Open ~> call[r].at \notin Server!Open
==============================================================================
