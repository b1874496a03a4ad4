---------------------------- MODULE SweepsProofs -----------------------------
(***************************************************************************)
(* The sweeps of the reconcile loop, for any number of verbs, failed calls *)
(* and stray sandboxes, and any threshold: what a sweep deletes is of no   *)
(* live instance, however long ago it read that.                           *)
(*                                                                         *)
(* The argument is that a row that has come to its end never comes back.   *)
(* A sweep deletes what runs, or a credential, only for an instance that   *)
(* it read as not live; a sandbox or a volume is there only for an         *)
(* instance that has a row; so the row it read was at its end, and is.     *)
(***************************************************************************)
EXTENDS Sweeps, FiniteSetTheorems, TLAPS

\* The instance is at its end, or on its way there.
Ended(i) == phase[i] \in {"DESTROYING", "DESTROYED", "FAILED"}
HasRow(i) == phase[i] # "ABSENT"

\* Every sandbox, every volume and the source of a fork have a row.
RowsInv ==
    /\ phase \in [Inst -> Phase]
    /\ HasRow(Source)
    /\ \A b \in DOMAIN box : box[b] \in Box /\ HasRow(box[b].name) /\ HasRow(box[b].tag)
    /\ vol \subseteq Inst /\ \A i \in vol : HasRow(i)
    /\ IsFiniteSet(DOMAIN box)

\* What a pass has read of sandboxes, and has decided, while it waits.
ReapInv ==
    /\ pc \in {"rows", "forks"} =>
          /\ IsFiniteSet(DOMAIN listed)
          /\ \A b \in DOMAIN listed : listed[b].tag \in Inst /\ HasRow(listed[b].tag)
    /\ pc = "forks" => \A b \in DOMAIN listed : listed[b].tag \in live \/ Ended(listed[b].tag)
    /\ pc = "reap" => /\ DOMAIN listed = doomed
                      /\ \A b \in doomed : listed[b].tag \in Inst
                                           /\ (listed[b].running => Ended(listed[b].tag))

\* The same for credentials.
TokenInv ==
    /\ pc = "owners" => suspect \subseteq Inst /\ \A i \in suspect : HasRow(i)
    /\ pc = "remove" => suspect \subseteq Inst /\ \A i \in suspect : Ended(i)
    /\ pc = "fail" => suspect \subseteq Inst /\ \A i \in suspect : HasRow(i)

SInv == RowsInv /\ ReapInv /\ TokenInv

\* The count of a vanished sandbox runs behind the listings that did not have it.
CountInv ==
    /\ counts \in [Inst -> 0 .. THRESHOLD - 1] /\ absent \in [Inst -> 0 .. THRESHOLD]
    /\ \A i \in Inst : counts[i] <= absent[i]
    /\ pc = "fail" => \A i \in suspect : absent[i] = THRESHOLD

-----------------------------------------------------------------------------
\* What a step may do to the rows: none goes away, and none comes back from its end.
Onward ==
    /\ phase' \in [Inst -> Phase]
    /\ \A i \in Inst : (HasRow(i) => HasRow(i)') /\ (Ended(i) => Ended(i)')

\* Moving one row on, or none, moves the rows on.
LEMMA SetMoves ==
    ASSUME RowsInv, NEW i \in Inst, NEW s \in Phase \ {"ABSENT"},
           phase[i] \in {"DESTROYING", "DESTROYED", "FAILED"}
              => s \in {"DESTROYING", "DESTROYED", "FAILED"},
           Set(i, s)
    PROVE  Onward
  BY Zenon DEF RowsInv, Onward, Set, HasRow, Ended

\* An untouched journal has moved on, trivially.
LEMMA RestMoves ==
    ASSUME RowsInv, UNCHANGED phase
    PROVE  Onward
  BY Zenon DEF RowsInv, Onward, HasRow, Ended

\* The verbs and the sweeps move the rows on, and no row comes back from its end.
LEMMA NextMoves ==
    ASSUME SInv, Next
    PROVE  Onward
<1>i. RowsInv /\ TokenInv /\ Source \in Inst /\ Target \in Inst
  BY Zenon DEF SInv, Inst
<1>1. ASSUME NEW i \in Inst, Start(i)
      PROVE  Onward
  <2>1. phase[i] \in {"ABSENT", "STOPPED"} /\ Set(i, "STARTING")
    BY <1>1, Zenon DEF Start, Submit
  <2>2. "STARTING" \in Phase \ {"ABSENT"}
    BY Zenon DEF Phase
  <2> QED
    BY <1>i, <2>1, <2>2, SetMoves, Zenon
<1>2. ASSUME NEW i \in Inst, Destroy(i)
      PROVE  Onward
  <2>1. Set(i, "DESTROYING")
    BY <1>2, Zenon DEF Destroy, Submit
  <2>2. "DESTROYING" \in Phase \ {"ABSENT"}
    BY Zenon DEF Phase
  <2> QED
    BY <1>i, <2>1, <2>2, SetMoves, Zenon
<1>3. ASSUME NEW i \in Inst, Booted(i)
      PROVE  Onward
  <2>1. phase[i] = "STARTING" /\ (Set(i, "RUNNING") \/ Set(i, "FAILED"))
    BY <1>3, Zenon DEF Booted
  <2>2. "RUNNING" \in Phase \ {"ABSENT"} /\ "FAILED" \in Phase \ {"ABSENT"}
    BY Zenon DEF Phase
  <2> QED
    BY <1>i, <2>1, <2>2, SetMoves, Zenon
<1>4. ASSUME NEW i \in Inst, Unmake(i)
      PROVE  Onward
  <2>1. Set(i, "FAILED") \/ Set(i, "DESTROYED")
    BY <1>4, Zenon DEF Unmake
  <2>2. "DESTROYED" \in Phase \ {"ABSENT"} /\ "FAILED" \in Phase \ {"ABSENT"}
    BY Zenon DEF Phase
  <2> QED
    BY <1>i, <2>1, <2>2, SetMoves, Zenon
<1>5. ASSUME NEW i \in Inst, WriteToken(i) \/ Boot(i)
      PROVE  Onward
  BY <1>i, <1>5, RestMoves, Zenon DEF WriteToken, Boot
<1>6. CASE Fork
  <2>1. phase[Target] = "ABSENT" /\ Set(Target, "CREATING")
    BY <1>6, Zenon DEF Fork, Submit
  <2>2. "CREATING" \in Phase \ {"ABSENT"}
    BY Zenon DEF Phase
  <2> QED
    BY <1>i, <2>1, <2>2, SetMoves, Zenon
<1>7. CASE ForkEnds
  <2>1. phase[Target] = "CREATING" /\ (Set(Target, "RUNNING") \/ Set(Target, "FAILED"))
    BY <1>7, Zenon DEF ForkEnds, Cloning
  <2>2. "RUNNING" \in Phase \ {"ABSENT"} /\ "FAILED" \in Phase \ {"ABSENT"}
    BY Zenon DEF Phase
  <2> QED
    BY <1>i, <2>1, <2>2, SetMoves, Zenon
<1>8. CASE Clone \/ Stray \/ \E b \in DOMAIN box : Reidentify(b)
  BY <1>i, <1>8, RestMoves, Zenon DEF Clone, Stray, Reidentify
<1>9. CASE fail_vanished
  <2>1. UNCHANGED phase \/ \E i \in suspect : Set(i, "FAILED")
    BY <1>9, Zenon DEF fail_vanished
  <2>2. suspect \subseteq Inst
    BY <1>i, <1>9, Zenon DEF fail_vanished, TokenInv
  <2>3. "FAILED" \in Phase \ {"ABSENT"}
    BY Zenon DEF Phase
  <2> QED
    BY <1>i, <2>1, <2>2, <2>3, SetMoves, RestMoves, Zenon
<1>10. CASE Tick /\ ~fail_vanished
  <2>1. UNCHANGED phase
    BY <1>10, Zenon DEF Tick, list_sandboxes, list_rows, decide, reap_sandbox, list_present,
       judge,
       not_due, list_credentials, owners, remove_credential, world
  <2> QED
    BY <1>i, <2>1, RestMoves, Zenon
<1> QED
  BY <1>1, <1>2, <1>3, <1>4, <1>5, <1>6, <1>7, <1>8, <1>9, <1>10, Zenon DEF Next, Verbs, Forks

-----------------------------------------------------------------------------
\* Sandboxes with rows, of which there are finitely many.
Boxed(f) ==
    /\ IsFiniteSet(DOMAIN f)
    /\ \A b \in DOMAIN f : f[b] \in Box /\ HasRow(f[b].name) /\ HasRow(f[b].tag)

\* Sandboxes that had rows have them still.
LEMMA BoxedStays ==
    ASSUME NEW f, Onward, Boxed(f)
    PROVE  /\ IsFiniteSet(DOMAIN f)
           /\ \A b \in DOMAIN f : /\ f[b] \in Box
                                  /\ phase'[f[b].name] # "ABSENT" /\ phase'[f[b].tag] # "ABSENT"
  BY Zenon DEF Boxed, Onward, HasRow, Box

\* What is left when some go has rows.
LEMMA WithoutBoxed ==
    ASSUME Boxed(box), NEW S
    PROVE  Boxed(Without(S))
<1>1. DOMAIN Without(S) \subseteq DOMAIN box /\ \A b \in DOMAIN Without(S) : Without(S)[b] = box[b]
  BY Zenon DEF Without
<1>2. IsFiniteSet(DOMAIN Without(S))
  BY <1>1, FS_Subset, Zenon DEF Boxed
<1> QED
  BY <1>1, <1>2, Zenon DEF Boxed

\* One more with a row leaves all with rows.
LEMMA WithBoxed ==
    ASSUME Boxed(box), NEW r \in Box, HasRow(r.name), HasRow(r.tag)
    PROVE  Boxed(With(r))
<1>1. DOMAIN With(r) = DOMAIN box \cup {Unused}
  BY Zenon DEF With
<1>2. IsFiniteSet(DOMAIN With(r))
  BY <1>1, FS_AddElement, Zenon DEF Boxed
<1>3. \A b \in DOMAIN With(r) : With(r)[b] = r \/ (b \in DOMAIN box /\ With(r)[b] = box[b])
  BY Zenon DEF With
<1> QED
  BY <1>2, <1>3, Zenon DEF Boxed

\* Whatever a step does to the sandboxes, they have rows.
LEMMA NextBoxes ==
    ASSUME SInv, Next
    PROVE  Boxed(box')
<1>i. RowsInv /\ Source \in Inst /\ Target \in Inst
  BY Zenon DEF SInv, Inst
<1>b. Boxed(box)
  BY <1>i, Zenon DEF RowsInv, Boxed
<1>1. ASSUME NEW i \in Inst, Boot(i)
      PROVE  Boxed(box')
  <2>1. HasRow(i)
    BY <1>1, Zenon DEF Boot, HasRow
  <2>2. CASE box' = With([name |-> i, tag |-> i, running |-> TRUE])
    <3>1. [name |-> i, tag |-> i, running |-> TRUE] \in Box
      BY Zenon DEF Box
    <3>2. Boxed(With([name |-> i, tag |-> i, running |-> TRUE]))
      BY <1>b, <2>1, <3>1, WithBoxed, Zenon
    <3> QED
      BY <2>2, <3>2, Zenon
  <2>3. ASSUME NEW kept \in Tagged(i),
               box' = [b \in DOMAIN Without(Tagged(i) \ {kept}) |->
                          [box[b] EXCEPT !.running = box[b].running \/ b = kept]]
        PROVE  Boxed(box')
    <3> DEFINE left == Without(Tagged(i) \ {kept})
    <3>1. Boxed(left)
      BY <1>b, WithoutBoxed, Zenon
    <3>2. DOMAIN left \subseteq DOMAIN box /\ \A b \in DOMAIN left : left[b] = box[b]
      BY Zenon DEF Without
    <3>3. DOMAIN box' = DOMAIN left
      BY <2>3, Zenon
    <3>4. ASSUME NEW b \in DOMAIN left
          PROVE  /\ box'[b] \in Box /\ box'[b].name = box[b].name
                 /\ box'[b].tag = box[b].tag
      <4>1. box'[b] = [box[b] EXCEPT !.running = box[b].running \/ b = kept]
        BY <2>3, Zenon
      <4>2. box[b] \in Box
        BY <1>b, <3>2, Zenon DEF Boxed
      <4>3. (box[b].running \/ b = kept) \in BOOLEAN
        BY Zenon
      <4> QED
        BY <4>1, <4>2, <4>3, Zenon DEF Box
    <3> HIDE DEF left
    <3> QED
      BY <3>1, <3>2, <3>3, <3>4, Zenon DEF Boxed
  <2> QED
    BY <1>1, <2>2, <2>3, Zenon DEF Boot
<1>2. ASSUME NEW i \in Inst, Unmake(i)
      PROVE  Boxed(box')
  <2>1. box' = Without(Named(i))
    BY <1>2, Zenon DEF Unmake
  <2> QED
    BY <1>b, <2>1, WithoutBoxed, Zenon
<1>3. CASE Clone
  <2>1. HasRow(Target) /\ HasRow(Source)
    BY <1>i, <1>3, Zenon DEF Clone, Cloning, HasRow, RowsInv
  <2>2. [name |-> Target, tag |-> Source, running |-> FALSE] \in Box
    BY <1>i, Zenon DEF Box
  <2>3. Boxed(With([name |-> Target, tag |-> Source, running |-> FALSE]))
    BY <1>b, <2>1, <2>2, WithBoxed, Zenon
  <2> QED
    BY <1>3, <2>3, Zenon DEF Clone
<1>4. ASSUME NEW b \in DOMAIN box, Reidentify(b)
      PROVE  Boxed(box')
  <2>1. HasRow(Target)
    BY <1>4, Zenon DEF Reidentify, Cloning, HasRow
  <2>2. PICK r : /\ r \in {[box[b] EXCEPT !.tag = Target], [box[b] EXCEPT !.running = TRUE]}
                 /\ box' = [box EXCEPT ![b] = r]
    BY <1>4, Zenon DEF Reidentify
  <2>3. box[b] \in Box /\ HasRow(box[b].name) /\ HasRow(box[b].tag)
    BY <1>b, Zenon DEF Boxed
  <2>4. r \in Box /\ r.name = box[b].name /\ r.tag \in {box[b].tag, Target}
    BY <1>i, <2>2, <2>3, Zenon DEF Box
  <2>5. /\ DOMAIN box' = DOMAIN box
        /\ \A c \in DOMAIN box : box'[c] = IF c = b THEN r ELSE box[c]
    BY <2>2, Zenon
  <2> QED
    BY <1>b, <2>1, <2>3, <2>4, <2>5, Zenon DEF Boxed
<1>5. CASE Stray
  <2>1. ASSUME NEW b \in DOMAIN box, box' = Without({b})
        PROVE  Boxed(box')
    BY <1>b, <2>1, WithoutBoxed, Zenon
  <2>2. ASSUME NEW i \in Inst, NEW up \in BOOLEAN, HasRow(i),
               box' = With([name |-> i, tag |-> i, running |-> up])
        PROVE  Boxed(box')
    <3>1. [name |-> i, tag |-> i, running |-> up] \in Box
      BY Zenon DEF Box
    <3>2. Boxed(With([name |-> i, tag |-> i, running |-> up]))
      BY <1>b, <2>2, <3>1, WithBoxed, Zenon
    <3> QED
      BY <2>2, <3>2, Zenon
  <2> QED
    BY <1>5, <2>1, <2>2, Zenon DEF Stray, HasRow
<1>6. CASE reap_sandbox
  <2>1. UNCHANGED box \/ \E b : box' = Without({b})
    BY <1>6, Zenon DEF reap_sandbox
  <2> QED
    BY <1>b, <2>1, WithoutBoxed, Zenon
<1>7. CASE UNCHANGED box
  BY <1>b, <1>7, Zenon
<1>8. Tick => reap_sandbox \/ UNCHANGED box
  BY Zenon DEF Tick, list_sandboxes, list_rows, decide, list_present, judge, fail_vanished,
     not_due, list_credentials, owners, remove_credential, world
<1>9. ASSUME NEW i \in Inst, Start(i) \/ Destroy(i) \/ WriteToken(i) \/ Booted(i)
      PROVE  UNCHANGED box
  BY <1>9, Zenon DEF Start, Destroy, Submit, WriteToken, Booted
<1>10. Fork \/ ForkEnds => UNCHANGED box
  BY Zenon DEF Fork, Submit, ForkEnds
<1> QED
  BY <1>1, <1>2, <1>3, <1>4, <1>5, <1>6, <1>7, <1>8, <1>9, <1>10, Zenon DEF Next, Verbs, Forks

\* A volume that is there is of an instance with a row.
LEMMA NextVolumes ==
    ASSUME SInv, Next
    PROVE  vol' \subseteq Inst /\ \A i \in vol' : HasRow(i)
<1>i. RowsInv
  BY Zenon DEF SInv
<1>1. ASSUME NEW i \in Inst, WriteToken(i)
      PROVE  vol' = vol \cup {i} /\ HasRow(i)
  BY <1>1, Zenon DEF WriteToken, HasRow
<1>2. ASSUME NEW i \in Inst, Start(i) \/ Destroy(i) \/ Boot(i) \/ Booted(i) \/ Unmake(i)
      PROVE  vol' \subseteq vol
  BY <1>2, Zenon DEF Start, Destroy, Submit, Boot, Booted, Unmake
<1>3. Fork \/ Forks \/ Stray => vol' \subseteq vol
  BY Zenon DEF Fork, Submit, Forks, Clone, ForkEnds, Reidentify, Stray
<1>4. Tick => vol' \subseteq vol
  BY Zenon DEF Tick, list_sandboxes, list_rows, decide, reap_sandbox, list_present, judge,
     fail_vanished, not_due, list_credentials, owners, remove_credential, world
<1> QED
  BY <1>i, <1>1, <1>2, <1>3, <1>4, Zenon DEF Next, Verbs, RowsInv

\* Every sandbox and every volume has a row, after every step.
LEMMA NextRows ==
    ASSUME SInv, Next
    PROVE  RowsInv'
<1>1. Onward /\ Boxed(box') /\ vol' \subseteq Inst /\ \A i \in vol' : HasRow(i)
  BY NextMoves, NextBoxes, NextVolumes, Zenon
<1>2. HasRow(Source) /\ Source \in Inst
  BY Zenon DEF SInv, RowsInv, Inst
<1>3. PICK f : f = box'
  BY Zenon
<1>4. /\ IsFiniteSet(DOMAIN f)
      /\ \A b \in DOMAIN f : /\ f[b] \in Box
                             /\ phase'[f[b].name] # "ABSENT" /\ phase'[f[b].tag] # "ABSENT"
  BY <1>1, <1>3, BoxedStays, Zenon
<1>5. HasRow(Source)' /\ \A i \in vol' : HasRow(i)'
  BY <1>1, <1>2, Zenon DEF Onward
<1> QED
  BY <1>1, <1>3, <1>4, <1>5, Zenon DEF RowsInv, HasRow, Onward

-----------------------------------------------------------------------------
\* A finite set of which at most one is counted has no two members.
LEMMA AtMostOne ==
    ASSUME NEW S, IsFiniteSet(S), ~(Cardinality(S) > 1), NEW x \in S, NEW y \in S
    PROVE  x = y
<1>1. SUFFICES ASSUME x # y
               PROVE  FALSE
  BY Zenon
<1>2. IsFiniteSet(S \ {x}) /\ Cardinality(S \ {x}) = Cardinality(S) - 1
  BY FS_RemoveElement, Zenon
<1>3. y \in S \ {x}
  BY <1>1, Zenon
<1>4. Cardinality(S \ {x}) # 0
  BY <1>2, <1>3, FS_EmptySet, Zenon
<1>5. Cardinality(S) \in Nat /\ Cardinality(S \ {x}) \in Nat
  BY <1>2, FS_CardinalityType, Zenon
<1> QED
  BY <1>2, <1>4, <1>5

\* What is decided to go and was listed as running is of an instance at its end: of
\* a live one nothing goes when two run, and the one that runs is kept.
LEMMA DecideSpares ==
    ASSUME SInv, pc = "forks", NEW i \in Inst, NEW exempt, NEW k,
           Group(i) # {} => Keep(i, k), NEW b \in verdict(i, exempt, k)
    PROVE  /\ b \in DOMAIN listed /\ listed[b].tag = i
           /\ listed[b].running => Ended(i)
<1>1. b \in Group(i)
  BY Zenon DEF verdict
<1>2. b \in DOMAIN listed /\ listed[b].tag = i
  BY <1>1, Zenon DEF Group
<1>3. ASSUME listed[b].running, i \in live
      PROVE  FALSE
  <2>1. ~(Cardinality(Up(i)) > 1) /\ b # k
    BY <1>3, Zenon DEF verdict
  <2>2. b \in Up(i)
    BY <1>1, <1>3, Zenon DEF Up
  <2>3. k \in Up(i)
    BY <1>1, <2>2, Zenon DEF Keep
  <2>4. IsFiniteSet(Up(i))
    <3>1. IsFiniteSet(DOMAIN listed) /\ Up(i) \subseteq DOMAIN listed
      BY Zenon DEF SInv, ReapInv, Up, Group
    <3> QED
      BY <3>1, FS_Subset, Zenon
  <2> QED
    BY <2>1, <2>2, <2>3, <2>4, AtMostOne, Zenon
<1>4. i \in live \/ Ended(i)
  BY <1>2, Zenon DEF SInv, ReapInv
<1> QED
  BY <1>2, <1>3, <1>4, Zenon

\* What the pass has read and decided about sandboxes stays true while it waits.
LEMMA NextReaps ==
    ASSUME SInv, Next
    PROVE  ReapInv'
<1>m. Onward
  BY NextMoves, Zenon
<1>i. RowsInv /\ ReapInv
  BY Zenon DEF SInv
<1>1. CASE UNCHANGED <<pc, listed, live, doomed>>
  BY <1>m, <1>i, <1>1, Zenon DEF ReapInv, Onward
<1>2. CASE list_sandboxes
  <2>1. CASE pc' = "rows" /\ listed' = box /\ UNCHANGED phase
    <3>1. IsFiniteSet(DOMAIN box)
          /\ \A b \in DOMAIN box : box[b].tag \in Inst /\ HasRow(box[b].tag)
      BY <1>i, Zenon DEF RowsInv, Box
    <3> QED
      BY <2>1, <3>1, Zenon DEF ReapInv, HasRow
  <2>2. CASE pc' = "present"
    BY <2>2, Zenon DEF ReapInv
  <2> QED
    BY <1>2, <2>1, <2>2, Zenon DEF list_sandboxes, Goto, world
<1>3. CASE list_rows
  <2>1. CASE /\ pc = "rows" /\ live' = {i \in Inst : live_row(i)} /\ pc' = "forks"
             /\ UNCHANGED <<listed, phase>>
    <3>1. \A b \in DOMAIN listed : listed[b].tag \in Inst /\ HasRow(listed[b].tag)
      BY <1>i, <2>1, Zenon DEF ReapInv
    <3>2. \A i \in Inst : HasRow(i) => i \in live' \/ Ended(i)
      BY <2>1, Zenon DEF live_row, IsLive, is_terminal, HasRow, Ended
    <3>3. IsFiniteSet(DOMAIN listed)
      BY <1>i, <2>1, Zenon DEF ReapInv
    <3> QED
      BY <2>1, <3>1, <3>2, <3>3, Zenon DEF ReapInv, HasRow, Ended
  <2>2. CASE pc' = "present"
    BY <2>2, Zenon DEF ReapInv
  <2> QED
    BY <1>3, <2>1, <2>2, Zenon DEF list_rows, Goto, world
<1>4. CASE decide
  <2>1. PICK exempt \in {fork_source_instances_in_flight, Inst}, k \in [Inst -> Ids] :
          /\ \A i \in Inst : IF Group(i) = {} THEN k[i] = 1 ELSE Keep(i, k[i])
          /\ doomed' = UNION {verdict(i, exempt, k[i]) : i \in Inst}
    BY <1>4, Zenon DEF decide
  <2>2. /\ pc = "forks" /\ pc' = "reap" /\ listed' = [b \in doomed' |-> listed[b]]
        /\ UNCHANGED phase
    BY <1>4, Zenon DEF decide, Goto, world
  <2>3. ASSUME NEW b \in doomed'
        PROVE  listed[b].tag \in Inst /\ (listed[b].running => Ended(listed[b].tag))
    <3>1. PICK i \in Inst : b \in verdict(i, exempt, k[i])
      BY <2>1, Zenon
    <3>2. Group(i) # {} => Keep(i, k[i])
      BY <2>1, Zenon
    <3>3. listed[b].tag = i /\ (listed[b].running => Ended(i))
      BY <2>2, <3>1, <3>2, DecideSpares, Zenon
    <3> QED
      BY <3>3, Zenon
  <2> QED
    BY <2>2, <2>3, Zenon DEF ReapInv, Ended
<1>5. CASE reap_sandbox
  <2>1. CASE pc' = "present"
    BY <2>1, Zenon DEF ReapInv
  <2>2. CASE pc' = pc
    <3>1. PICK b \in doomed : doomed' = doomed \ {b} /\ listed' = [c \in doomed' |-> listed[c]]
      BY <1>5, <2>2, Zenon DEF reap_sandbox, Goto
    <3>2. pc = "reap" /\ UNCHANGED phase
      BY <1>5, Zenon DEF reap_sandbox
    <3>3. \A c \in doomed : listed[c].tag \in Inst /\ (listed[c].running => Ended(listed[c].tag))
      BY <1>i, <3>2, Zenon DEF ReapInv
    <3> QED
      BY <2>2, <3>1, <3>2, <3>3, Zenon DEF ReapInv, Ended
  <2> QED
    BY <1>5, <2>1, <2>2, Zenon DEF reap_sandbox, Goto
<1>6. CASE \/ list_present \/ judge \/ fail_vanished
           \/ not_due \/ list_credentials \/ owners \/ remove_credential
  <2>1. pc' \in {"judge", "fail", "volumes", "sandboxes", "owners", "remove"}
    BY <1>6, Zenon DEF list_present, judge, fail_vanished, not_due, list_credentials, owners,
       remove_credential, Goto
  <2> QED
    BY <2>1, Zenon DEF ReapInv
<1>7. ASSUME NEW i \in Inst, Start(i) \/ Destroy(i) \/ Verbs(i)
      PROVE  UNCHANGED <<pc, listed, live, doomed>>
  BY <1>7, Zenon DEF Start, Destroy, Submit, Verbs, WriteToken, Boot, Booted, Unmake, loop
<1>8. Fork \/ Forks \/ Stray => UNCHANGED <<pc, listed, live, doomed>>
  BY Zenon DEF Fork, Submit, Forks, Clone, ForkEnds, Reidentify, Stray, loop
<1> QED
  BY <1>1, <1>2, <1>3, <1>4, <1>5, <1>6, <1>7, <1>8, Zenon DEF Next, Tick

\* What the pass has read and decided about instances stays true while it waits.
LEMMA NextSuspects ==
    ASSUME SInv, Next
    PROVE  TokenInv'
<1>m. Onward
  BY NextMoves, Zenon
<1>i. RowsInv /\ TokenInv
  BY Zenon DEF SInv
<1>1. CASE UNCHANGED <<pc, suspect>>
  BY <1>m, <1>i, <1>1, Zenon DEF TokenInv, Onward
<1>2. CASE list_sandboxes \/ list_rows \/ decide \/ reap_sandbox \/ list_present \/ not_due
  <2>1. pc' \in {"rows", "forks", "reap", "present", "judge", "volumes", "sandboxes"}
    BY <1>2, Zenon DEF list_sandboxes, list_rows, decide, reap_sandbox, list_present, not_due,
       Goto
  <2> QED
    BY <2>1, Zenon DEF TokenInv
<1>3. CASE judge
  <2>1. CASE pc' = "volumes"
    BY <2>1, Zenon DEF TokenInv
  <2>2. CASE /\ pc' = "fail" /\ UNCHANGED phase
             /\ suspect' = {i \in Inst : counted(i) >= THRESHOLD}
    <3>1. ~(0 >= THRESHOLD)
      BY SweepsBounds
    <3>2. \A i \in Inst : counted(i) >= THRESHOLD => HasRow(i)
      BY <3>1, Zenon DEF counted, HasRow
    <3> QED
      BY <2>2, <3>2, Zenon DEF TokenInv, HasRow
  <2> QED
    BY <1>3, <2>1, <2>2, Zenon DEF judge, Goto, world
<1>4. CASE fail_vanished
  <2>1. CASE pc' = "volumes"
    BY <2>1, Zenon DEF TokenInv
  <2>2. CASE pc' = pc
    <3>1. pc = "fail" /\ suspect' \subseteq suspect
      BY <1>4, <2>2, Zenon DEF fail_vanished, Goto
    <3> QED
      BY <1>m, <1>i, <2>2, <3>1, Zenon DEF TokenInv, Onward
  <2> QED
    BY <1>4, <2>1, <2>2, Zenon DEF fail_vanished, Goto
<1>5. CASE list_credentials
  <2>1. CASE pc' = "sandboxes"
    BY <2>1, Zenon DEF TokenInv
  <2>2. CASE pc' = "owners" /\ suspect' = vol /\ UNCHANGED phase
    BY <1>i, <2>2, Zenon DEF TokenInv, RowsInv, HasRow
  <2> QED
    BY <1>5, <2>1, <2>2, Zenon DEF list_credentials, Goto, world
<1>6. CASE owners
  <2>1. CASE pc' = "sandboxes"
    BY <2>1, Zenon DEF TokenInv
  <2>2. CASE /\ pc = "owners" /\ pc' = "remove" /\ UNCHANGED phase
             /\ suspect' = suspect \ {i \in Inst : live_row(i)}
    <3>1. suspect \subseteq Inst /\ \A i \in suspect : HasRow(i)
      BY <1>i, <2>2, Zenon DEF TokenInv
    <3>2. \A i \in Inst : HasRow(i) /\ ~live_row(i) => Ended(i)
      BY Zenon DEF live_row, IsLive, is_terminal, HasRow, Ended
    <3> QED
      BY <2>2, <3>1, <3>2, Zenon DEF TokenInv, Ended
  <2> QED
    BY <1>6, <2>1, <2>2, Zenon DEF owners, Goto, world
<1>7. CASE remove_credential
  <2>1. CASE pc' = "sandboxes"
    BY <2>1, Zenon DEF TokenInv
  <2>2. CASE pc' = pc
    <3>1. pc = "remove" /\ suspect' \subseteq suspect
      BY <1>7, <2>2, Zenon DEF remove_credential, Goto
    <3> QED
      BY <1>m, <1>i, <2>2, <3>1, Zenon DEF TokenInv, Onward
  <2> QED
    BY <1>7, <2>1, <2>2, Zenon DEF remove_credential, Goto
<1>8. ASSUME NEW i \in Inst, Start(i) \/ Destroy(i) \/ Verbs(i)
      PROVE  UNCHANGED <<pc, suspect>>
  BY <1>8, Zenon DEF Start, Destroy, Submit, Verbs, WriteToken, Boot, Booted, Unmake, loop
<1>9. Fork \/ Forks \/ Stray => UNCHANGED <<pc, suspect>>
  BY Zenon DEF Fork, Submit, Forks, Clone, ForkEnds, Reidentify, Stray, loop
<1> QED
  BY <1>1, <1>2, <1>3, <1>4, <1>5, <1>6, <1>7, <1>8, <1>9, Zenon DEF Next, Tick

-----------------------------------------------------------------------------
\* The first states are within the invariant.
LEMMA InitSweeps == Init => SInv
<1> SUFFICES ASSUME Init
             PROVE  SInv
  BY Zenon
<1>1. PICK up \in BOOLEAN :
        /\ phase = [i \in Inst |-> IF i = Target THEN "ABSENT"
                    ELSE IF up THEN "RUNNING" ELSE "STOPPED"]
        /\ box = [b \in {1} |-> [name |-> Source, tag |-> Source, running |-> up]]
  BY Zenon DEF Init
<1>2. Source \in Inst /\ Source # Target
  BY SweepsBounds, Zenon DEF Inst
<1>3. phase \in [Inst -> Phase] /\ HasRow(Source)
  BY <1>1, <1>2, Zenon DEF Phase, HasRow
<1>4. DOMAIN box = {1} /\ \A b \in DOMAIN box : box[b] \in Box /\ box[b].name = Source
                                               /\ box[b].tag = Source
  BY <1>1, <1>2, Zenon DEF Box
<1>5. IsFiniteSet(DOMAIN box)
  BY <1>4, FS_Singleton, Zenon
<1>6. RowsInv
  BY <1>2, <1>3, <1>4, <1>5, Zenon DEF RowsInv, Init, HasRow
<1> QED
  BY <1>6, Zenon DEF SInv, ReapInv, TokenInv, Init

\* Every step keeps the invariant.
LEMMA StepSweeps ==
    ASSUME SInv, [Next]_vars
    PROVE  SInv'
<1>1. CASE Next
  BY <1>1, NextRows, NextReaps, NextSuspects, Zenon DEF SInv
<1>2. CASE UNCHANGED vars
  BY <1>2, Zenon DEF vars, SInv, RowsInv, ReapInv, TokenInv, HasRow, Ended
<1> QED
  BY <1>1, <1>2, Zenon

\* The invariant of the sweeps, whatever the verbs do between two reads of a pass.
THEOREM SweepsInvariance == Spec => []SInv
  BY InitSweeps, StepSweeps, PTL DEF Spec

\* A sandbox that was listed as the running one of its instance is not deleted while
\* the instance is live (sweep_instances), whatever became of it since the listing.
THEOREM WorkloadsAreSpared == Spec => SparesWorkload
<1> DEFINE Spared == \A b \in doomed :
             pc = "reap" /\ b \in DOMAIN box /\ b \notin DOMAIN box'
             /\ listed[b].running /\ listed[b].tag = box[b].name
             => ~IsLive(box[b].name) \/ phase[box[b].name] = "DESTROYING"
<1>1. ASSUME SInv
      PROVE  Spared
  BY <1>1, Zenon DEF SInv, ReapInv, Ended, IsLive, is_terminal
<1>2. SInv /\ [Next]_vars => [Spared]_vars
  BY <1>1, Zenon
<1> QED
  BY <1>2, SweepsInvariance, PTL DEF Spec, SparesWorkload

\* No sweep deletes the credential of a live instance, one that came up during the
\* pass included (sweep_credentials).
THEOREM CredentialsAreSpared == Spec => SparesCredential
<1> DEFINE Spared == \A i \in suspect \ suspect' :
             pc = "remove" /\ i \in vol /\ i \notin vol'
             => ~IsLive(i) \/ phase[i] = "DESTROYING"
<1>1. ASSUME SInv
      PROVE  Spared
  BY <1>1, Zenon DEF SInv, TokenInv, Ended, IsLive, is_terminal
<1>2. SInv /\ [Next]_vars => [Spared]_vars
  BY <1>1, Zenon
<1> QED
  BY <1>2, SweepsInvariance, PTL DEF Spec, SparesCredential

-----------------------------------------------------------------------------
\* One instance, judged: its count stays behind, and reaches the threshold only with
\* the listings.
LEMMA JudgeCounts ==
    ASSUME CountInv, NEW i \in Inst
    PROVE  /\ (IF counted(i) >= THRESHOLD THEN 0 ELSE counted(i)) \in 0 .. THRESHOLD - 1
           /\ Missed(i) \in 0 .. THRESHOLD
           /\ (IF counted(i) >= THRESHOLD THEN 0 ELSE counted(i)) <= Missed(i)
           /\ counted(i) >= THRESHOLD => Missed(i) = THRESHOLD
<1>1. /\ THRESHOLD \in Nat /\ THRESHOLD >= 1
      /\ counts[i] \in 0 .. THRESHOLD - 1 /\ absent[i] \in 0 .. THRESHOLD
      /\ counts[i] <= absent[i]
  BY SweepsBounds DEF CountInv
<1>2. CASE phase[i] = "RUNNING" /\ i \notin live
  <2>1. /\ counted(i) = counts[i] + 1
        /\ Missed(i) = IF absent[i] = THRESHOLD THEN THRESHOLD ELSE absent[i] + 1
    BY <1>2, Zenon DEF counted, Missed
  <2> QED
    BY <1>1, <2>1
<1>3. CASE ~(phase[i] = "RUNNING" /\ i \notin live)
  <2>1. counted(i) = 0
    BY <1>3, Zenon DEF counted
  <2>2. Missed(i) \in {0, THRESHOLD, absent[i] + 1} /\ (absent[i] = THRESHOLD => Missed(i) # absent[i] + 1)
    BY <1>1 DEF Missed
  <2> QED
    BY <1>1, <2>1, <2>2
<1> QED
  BY <1>2, <1>3, Zenon

\* Every step keeps the count behind the listings.
LEMMA StepCounts ==
    ASSUME CountInv, [Next]_vars
    PROVE  CountInv'
<1>1. CASE judge
  <2>1. CASE /\ pc' = "fail" /\ suspect' = {i \in Inst : counted(i) >= THRESHOLD}
             /\ counts' = [i \in Inst |-> IF counted(i) >= THRESHOLD THEN 0 ELSE counted(i)]
             /\ absent' = [i \in Inst |-> Missed(i)]
    <3>1. \A i \in Inst :
            /\ counts'[i] = IF counted(i) >= THRESHOLD THEN 0 ELSE counted(i)
            /\ absent'[i] = Missed(i)
      BY <2>1, Zenon
    <3>2. \A i \in Inst : /\ counts'[i] \in 0 .. THRESHOLD - 1
                          /\ absent'[i] \in 0 .. THRESHOLD
                          /\ counts'[i] <= absent'[i]
                          /\ i \in suspect' => absent'[i] = THRESHOLD
      BY <2>1, <3>1, JudgeCounts, Zenon
    <3>3. /\ counts' \in [Inst -> 0 .. THRESHOLD - 1]
          /\ absent' \in [Inst -> 0 .. THRESHOLD]
      BY <2>1, <3>2, Zenon
    <3>4. suspect' \subseteq Inst
      BY <2>1, Zenon
    <3> QED
      BY <3>2, <3>3, <3>4, Zenon DEF CountInv
  <2>2. CASE pc' = "volumes" /\ UNCHANGED <<counts, absent>>
    BY <2>2, Zenon DEF CountInv
  <2> QED
    BY <1>1, <2>1, <2>2, Zenon DEF judge, Goto
<1>2. CASE fail_vanished
  <2>1. pc = "fail" /\ UNCHANGED <<counts, absent>> /\ suspect' \subseteq suspect
    BY <1>2, Zenon DEF fail_vanished
  <2> QED
    BY <2>1, Zenon DEF CountInv
<1>3. CASE \/ list_sandboxes \/ list_rows \/ decide \/ reap_sandbox \/ list_present
           \/ not_due \/ list_credentials \/ owners \/ remove_credential
  <2>1. UNCHANGED <<counts, absent>> /\ pc' # "fail"
    BY <1>3, Zenon DEF list_sandboxes, list_rows, decide, reap_sandbox, list_present, not_due,
       list_credentials, owners, remove_credential, Goto
  <2> QED
    BY <2>1, Zenon DEF CountInv
<1>4. ASSUME NEW i \in Inst, Start(i) \/ Destroy(i) \/ Verbs(i)
      PROVE  UNCHANGED loop
  BY <1>4, Zenon DEF Start, Destroy, Submit, Verbs, WriteToken, Boot, Booted, Unmake
<1>5. Fork \/ Forks \/ Stray => UNCHANGED loop
  BY Zenon DEF Fork, Submit, Forks, Clone, ForkEnds, Reidentify, Stray
<1>6. CASE UNCHANGED loop
  BY <1>6, Zenon DEF loop, CountInv
<1>7. CASE UNCHANGED vars
  BY <1>7, Zenon DEF vars, CountInv
<1> QED
  BY <1>1, <1>2, <1>3, <1>4, <1>5, <1>6, <1>7, Zenon DEF Next, Tick

\* The first states have counted nothing.
LEMMA InitCounts == Init => CountInv
  BY SweepsBounds DEF Init, CountInv

\* An instance is failed as vanished only after THRESHOLD successful listings in a row
\* that did not have it (reconcile_vanished_sandboxes).
THEOREM FailedOnlyWhenVanished == Spec => VanishedThrice
<1> DEFINE Thrice == \A i \in suspect :
             pc = "fail" /\ i \notin suspect' => absent[i] = THRESHOLD
<1>1. CountInv /\ [Next]_vars => [Thrice]_vars
  BY Zenon DEF CountInv
<1>2. Spec => []CountInv
  BY InitCounts, StepCounts, PTL DEF Spec
<1> QED
  BY <1>1, <1>2, PTL DEF Spec, VanishedThrice
=============================================================================
