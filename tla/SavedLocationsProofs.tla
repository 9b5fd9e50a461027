------------------------- MODULE SavedLocationsProofs -------------------------
(***************************************************************************)
(* For every limit and any number of concurrent creations, a customer      *)
(* never has more saved locations than the limit.                          *)
(***************************************************************************)
EXTENDS SavedLocations, FiniteSetTheorems, TLAPS

(* A lock change of one transaction that grants CreationLock to nobody.    *)
LEMMA HeldKeeps ==
  ASSUME OneCounter, NEW r \in Requests,
         NEW locks \in SUBSET {ForeignKeyLock, CreationLock}, Hold(r, locks),
         CreationLock \in locks <=> CreationLock \in held[r],
         UNCHANGED <<saved, counted>>
  PROVE  OneCounter'
  BY DEF OneCounter, Hold

(* A transaction that ends counts no more, and others can count on less.   *)
LEMMA EndKeeps ==
  ASSUME OneCounter, NEW r \in Requests, Hold(r, {}),
         counted' = [counted EXCEPT ![r] = FALSE],
         saved' \subseteq Locations, IsFiniteSet(saved'),
         \A q \in Requests \ {r} :
           counted[q] => Cardinality(saved') <= Cardinality(saved)
  PROVE  OneCounter'
<1>1. /\ held' \in [Requests -> SUBSET {ForeignKeyLock, CreationLock}]
      /\ \A q \in Requests : held'[q] = IF q = r THEN {} ELSE held[q]
  BY DEF OneCounter, Hold
<1>2. /\ counted' \in [Requests -> BOOLEAN]
      /\ \A q \in Requests : counted'[q] => q # r /\ counted[q]
  BY DEF OneCounter
<1>3. Cardinality(saved') \in Nat
  BY FS_CardinalityType
<1>4. Cardinality(saved) \in Nat
  BY FS_CardinalityType DEF OneCounter
<1>5. ASSUME NEW q \in Requests, counted'[q]
      PROVE  CreationLock \in held'[q] /\ Cardinality(saved') < MAX_SAVED_LOCATIONS
  BY <1>1, <1>2, <1>3, <1>4, <1>5, LimitAssumption DEF OneCounter
<1>6. \A p, q \in Requests : CreationLock \in held'[p] \cap held'[q] => p = q
  BY <1>1 DEF OneCounter
<1> QED
  BY <1>1, <1>2, <1>5, <1>6 DEF OneCounter

(* Only the holder of the lock on the customer's row has a count to act    *)
(* on, so the count it acts on is the number of rows until it ends.        *)
LEMMA Locked == Spec => [](OneCounter /\ LimitHolds)
<1> DEFINE Inv == OneCounter /\ LimitHolds
<1>1. Init => Inv
  BY FS_EmptySet, LimitAssumption DEF Init, OneCounter, LimitHolds
<1>2. Inv /\ [Next]_vars => Inv'
  <2> SUFFICES ASSUME OneCounter, LimitHolds, [Next]_vars
               PROVE  OneCounter' /\ LimitHolds'
    OBVIOUS
  <2>1. Cardinality(saved) \in Nat
    BY FS_CardinalityType DEF OneCounter
  <2>2. CASE UNCHANGED <<saved, held, counted>>
    BY <2>2 DEF OneCounter, LimitHolds
  <2>3. ASSUME NEW r \in Requests, Reserve(r)
        PROVE  OneCounter' /\ LimitHolds'
    <3>1. CASE held' = held
      BY <2>2, <2>3, <3>1 DEF Reserve
    <3>2. CASE Hold(r, held[r] \cup {ForeignKeyLock})
      <4>1. /\ held[r] \cup {ForeignKeyLock} \in SUBSET {ForeignKeyLock, CreationLock}
            /\ CreationLock \in held[r] \cup {ForeignKeyLock} <=> CreationLock \in held[r]
        BY DEF OneCounter, ForeignKeyLock, CreationLock
      <4> QED
        BY <2>3, <3>2, <4>1, HeldKeeps DEF Reserve, LimitHolds
    <3> QED
      BY <2>3, <3>1, <3>2 DEF Reserve
  <2>4. ASSUME NEW r \in Requests, LockCustomer(r)
        PROVE  OneCounter' /\ LimitHolds'
    <3>1. \A q \in Requests \ {r} : CreationLock \notin held[q]
      BY <2>4 DEF LockCustomer, Grantable, Conflicts, CreationLock
    <3>2. /\ held' \in [Requests -> SUBSET {ForeignKeyLock, CreationLock}]
          /\ \A q \in Requests : q # r => held'[q] = held[q]
          /\ CreationLock \in held'[r]
      BY <2>4 DEF OneCounter, LockCustomer, Hold
    <3> QED
      BY <2>4, <3>1, <3>2 DEF OneCounter, LimitHolds, LockCustomer
  <2>5. ASSUME NEW r \in Requests, Rollback(r)
        PROVE  OneCounter' /\ LimitHolds'
    <3>1. saved' = saved /\ Cardinality(saved') <= Cardinality(saved)
      BY <2>1, <2>5 DEF Rollback
    <3>2. OneCounter'
      BY <2>5, <3>1, EndKeeps DEF Rollback, OneCounter
    <3> QED
      BY <3>1, <3>2 DEF LimitHolds
  <2>6. ASSUME NEW r \in Requests, Count(r)
        PROVE  OneCounter' /\ LimitHolds'
    <3>1. CASE Rollback(r)
      BY <2>5, <3>1
    <3>2. CASE /\ Cardinality(saved) < MAX_SAVED_LOCATIONS
               /\ counted' = [counted EXCEPT ![r] = TRUE]
               /\ UNCHANGED <<saved, held>>
      BY <2>6, <3>2 DEF Count, OneCounter, LimitHolds
    <3> QED
      BY <2>6, <3>1, <3>2 DEF Count
  <2>7. ASSUME NEW r \in Requests, Save(r)
        PROVE  OneCounter' /\ LimitHolds'
    <3>1. PICK l \in Locations \ saved : saved' = saved \cup {l}
      BY <2>7 DEF Save
    <3>2. IsFiniteSet(saved') /\ Cardinality(saved') = Cardinality(saved) + 1
      BY <3>1, FS_AddElement DEF OneCounter
    <3>3. Cardinality(saved) < MAX_SAVED_LOCATIONS
      BY <2>7 DEF Save, OneCounter
    <3>4. \A q \in Requests \ {r} : ~counted[q]
      BY <2>7 DEF Save, OneCounter
    <3>5. OneCounter'
      BY <2>7, <3>1, <3>2, <3>4, EndKeeps DEF Save, OneCounter
    <3> QED
      BY <2>1, <3>2, <3>3, <3>5, LimitAssumption DEF LimitHolds
  <2>8. ASSUME NEW l \in Locations, Delete(l)
        PROVE  OneCounter' /\ LimitHolds'
    <3>1. IsFiniteSet(saved') /\ Cardinality(saved') = Cardinality(saved) - 1
      BY <2>8, FS_RemoveElement DEF Delete, OneCounter
    <3>2. Cardinality(saved') \in Nat
      BY <3>1, FS_CardinalityType
    <3>3. LimitHolds'
      BY <2>1, <3>1, LimitAssumption DEF LimitHolds
    <3>4. saved' \subseteq Locations /\ held' = held /\ counted' = counted
      BY <2>8 DEF Delete, OneCounter
    <3>5. \A q \in Requests : counted[q] => Cardinality(saved') < MAX_SAVED_LOCATIONS
      BY <2>1, <3>1, LimitAssumption DEF OneCounter
    <3> QED
      BY <3>1, <3>3, <3>4, <3>5 DEF OneCounter
  <2>9. ASSUME NEW r \in Requests, (\E k \in Keys \cup {None} : Post(r, k)) \/ Look(r)
        PROVE  UNCHANGED <<saved, held, counted>>
    BY <2>9 DEF Post, Look
  <2> QED
    BY <2>2, <2>3, <2>4, <2>5, <2>6, <2>7, <2>8, <2>9 DEF Next, vars
<1> QED
  BY <1>1, <1>2, PTL DEF Spec

(* One creation at a time is past the lock with a count it can rely on.    *)
THEOREM OneCreationCounts == Spec => []OneCounter
BY Locked, PTL

(* create_saved_location never exceeds MAX_SAVED_LOCATIONS.                *)
THEOREM Limit == Spec => []LimitHolds
BY Locked, PTL
==============================================================================
