-------------------------- MODULE SnapshotsProofs --------------------------
(***************************************************************************)
(* Proofs about Snapshots, for any number of captures, verbs, crashes and  *)
(* faults, and for any names and bundles: which memory a resume brings     *)
(* back, what the pointer names, and which explicit snapshots stay.        *)
(*                                                                         *)
(* The argument is the order of the captures.  Ids grow, a row is inserted *)
(* under the newest id while its operation is alone, and the pointer is at *)
(* the newest row or nowhere; so a row at or after the image the sandbox   *)
(* holds is a capture of that image, and the row the pointer names is one  *)
(* as soon as any row is.                                                  *)
(***************************************************************************)
EXTENDS Snapshots, TLAPS

-----------------------------------------------------------------------------
(* The inductive invariant                                                 *)

(* The operation is a record of these fields. *)
Shape == op = [req |-> op.req, pc |-> op.pc, lands |-> op.lands, ok |-> op.ok,
               id |-> op.id, todo |-> op.todo]

(* Every id and every image is of a capture that was made; an image is no newer than *)
(* the id it has. *)
Numbered ==
    /\ n \in Nat /\ latest \in Nat
    /\ DOMAIN rows \subseteq 1 .. n
    /\ DOMAIN objects \subseteq 1 .. n
    /\ \A j \in DOMAIN rows : rows[j].image \in 1 .. j
    /\ \A j \in DOMAIN objects : objects[j].image \in 1 .. j
    /\ sandbox.mode = "standby" => sandbox.image \in 1 .. n

Pausing == op.req.kind = "Pause" /\ op.pc \in {"record", "record_disk"}
Creating == op.req.kind = "CreateSnapshot" /\ op.pc \in {"record", "compensate"}
Forgetting == op.req.kind = "Destroy" /\ op.pc \in {"forget", "forget_row"}

(* A capture that is not journaled yet is the newest, and has no row. *)
Newest ==
    /\ Pausing => /\ op.id = n /\ n \notin DOMAIN rows /\ n \notin DOMAIN objects
                  /\ sandbox.mode = "standby" /\ sandbox.image = n
    /\ Creating => /\ op.id = n /\ n \notin DOMAIN rows /\ n \in DOMAIN objects
                   /\ sandbox.mode = "standby" => objects[n].image = sandbox.image

(* The pointer is at the newest row, or nowhere. *)
Pointer == latest # None => latest \in DOMAIN rows /\ \A j \in DOMAIN rows : j <= latest

(* Journal and substrate agree on the image of an id they both have. *)
SameImage == \A j \in DOMAIN rows : j \in DOMAIN objects => rows[j].image = objects[j].image

(* What is captured after a pause, until the sandbox runs again, is that pause's image. *)
Inside ==
    sandbox.mode = "standby" =>
        \A j \in DOMAIN rows : sandbox.image <= j => rows[j].image = sandbox.image

(* Only a destroy that does not keep the snapshots forgets them. *)
Asked == Forgetting => ~op.req.flag

Inv == /\ Shape /\ Numbered /\ Newest /\ Pointer /\ SameImage /\ Inside /\ Asked
       /\ ServesWhatItNames /\ StrictNeverCold
-----------------------------------------------------------------------------
(* What the shared steps do *)

\* An operation that ends, and one that goes on, stays the operation it is.
LEMMA OpEffect ==
    ASSUME Shape
    PROVE  /\ Done \/ Failed => Shape' /\ op'.req = op.req /\ op'.pc = "final" /\ op'.id = op.id
           /\ \A pc, i : Goto(pc, i) => Shape' /\ op'.req = op.req /\ op'.pc = pc /\ op'.id = i
<1>1. Done => op' = [req |-> op.req, pc |-> "final", lands |-> op.lands, ok |-> TRUE,
                     id |-> op.id, todo |-> op.todo]
  BY Zenon DEF Done, Shape
<1>2. Failed => op' = [req |-> op.req, pc |-> "final", lands |-> op.lands, ok |-> FALSE,
                       id |-> op.id, todo |-> op.todo]
  BY Zenon DEF Failed, Shape
<1>3. ASSUME NEW pc, NEW i, Goto(pc, i)
      PROVE  op' = [req |-> op.req, pc |-> pc, lands |-> op.lands, ok |-> op.ok,
                    id |-> i, todo |-> op.todo]
  BY <1>3, Zenon DEF Goto, Shape
<1>4. Done \/ Failed => Shape' /\ op'.req = op.req /\ op'.pc = "final" /\ op'.id = op.id
  BY <1>1, <1>2 DEF Shape
<1>5. \A pc, i : Goto(pc, i) => Shape' /\ op'.req = op.req /\ op'.pc = pc /\ op'.id = i
  BY <1>3 DEF Shape
<1> QED
  BY <1>4, <1>5, Zenon

\* The initial state has the invariant.
LEMMA InitInv == Init => Inv
BY DEF Init, Inv, Shape, Numbered, Newest, Pausing, Creating, Forgetting, Pointer, SameImage,
   Inside,
       Asked, ServesWhatItNames, StrictNeverCold, NoOp, NoRequest, None, Cold

\* SubstrateFails keeps the invariant.
LEMMA Step_SubstrateFails == Inv /\ SubstrateFails => Inv'
BY OpEffect, ZenonT(40) DEF SubstrateFails, journal, bounds, Inv, Numbered, Newest, Pausing,
   Creating, Forgetting, Pointer, SameImage, Inside, Asked,
       ServesWhatItNames, StrictNeverCold, None, Cold

\* Start keeps the invariant.
LEMMA Step_Start == Inv /\ Start => Inv'
BY OpEffect DEF Start, Running, journal, bounds, Inv, Numbered, Newest, Pausing, Creating,
   Forgetting, Pointer, SameImage, Inside, Asked,
       ServesWhatItNames, StrictNeverCold, None, Cold

\* Stop keeps the invariant.
LEMMA Step_Stop == Inv /\ Stop => Inv'
BY OpEffect DEF Stop, Running, journal, bounds, Inv, Numbered, Newest, Pausing, Creating,
   Forgetting, Pointer, SameImage, Inside, Asked,
       ServesWhatItNames, StrictNeverCold, None, Cold

\* finalize keeps the invariant.
LEMMA Step_finalize == Inv /\ finalize => Inv'
BY DEF finalize, journal, bounds, NoOp, NoRequest, Shape, Inv, Numbered, Newest, Pausing,
   Creating, Forgetting, Pointer, SameImage, Inside, Asked,
       ServesWhatItNames, StrictNeverCold, None, Cold

\* CrashRecover keeps the invariant.
LEMMA Step_CrashRecover == Inv /\ CrashRecover => Inv'
BY DEF CrashRecover, journal, NoOp, NoRequest, Shape, Inv, Numbered, Newest, Pausing, Creating,
   Forgetting, Pointer, SameImage, Inside, Asked,
       ServesWhatItNames, StrictNeverCold, None, Cold

\* submit_atomically keeps the invariant.
LEMMA Step_submit_atomically == Inv /\ submit_atomically => Inv'
<1> SUFFICES ASSUME Inv, submit_atomically PROVE Inv'
  BY Zenon
<1>a. UNCHANGED <<latest, rows, sandbox, objects, n, runs>>
  BY Zenon DEF submit_atomically, journal
<1>b. \/ UNCHANGED op
      \/ Shape' /\ op'.pc = "run"
  BY Zenon DEF submit_atomically, NoOp, Shape
<1>1. Shape' /\ Asked'
  BY <1>a, <1>b, Zenon DEF Inv, Shape, Asked, Forgetting
<1>2. Numbered'
  BY <1>a, <1>b, Zenon DEF Inv, Numbered, Newest, Pausing, Creating, None
<1>3. Newest'
  BY <1>a, <1>b, Zenon DEF Inv, Numbered, Newest, Pausing, Creating
<1>4. Pointer'
  BY <1>a, <1>b, Zenon DEF Inv, Numbered, Newest, Pausing, Creating, Pointer, None
<1>5. SameImage'
  BY <1>a, <1>b, Zenon DEF Inv, Numbered, Newest, Pausing, Creating, SameImage
<1>6. Inside'
  BY <1>a, <1>b, Zenon DEF Inv, Numbered, Newest, Pausing, Creating, Inside
<1>7. ServesWhatItNames' /\ StrictNeverCold'
  BY <1>a, <1>b, Zenon DEF Inv, ServesWhatItNames, StrictNeverCold
<1> QED
  BY <1>1, <1>2, <1>3, <1>4, <1>5, <1>6, <1>7, Zenon DEF Inv

\* compensate keeps the invariant.
LEMMA Step_compensate == Inv /\ compensate => Inv'
<1> SUFFICES ASSUME Inv, compensate PROVE Inv'
  BY Zenon
<1>a. UNCHANGED <<latest, rows, sandbox, n, runs>>
  BY Zenon DEF compensate, journal
<1>b. \/ UNCHANGED objects
      \/ \E i : /\ DOMAIN objects' = DOMAIN objects \ {i}
                /\ \A j \in DOMAIN objects' : objects'[j] = objects[j]
  <2>1. UNCHANGED objects \/ \E i : objects' = Drop(objects, i)
    BY Zenon DEF compensate
  <2> QED
    BY <2>1, Zenon DEF Drop
<1>c. Shape' /\ op'.req = op.req /\ op'.pc = "final"
  BY OpEffect, Zenon DEF Inv, compensate
<1>1. Shape' /\ Asked'
  BY <1>a, <1>b, <1>c, Zenon DEF Inv, Shape, Asked, Forgetting
<1>2. Numbered'
  BY <1>a, <1>b, <1>c, Zenon DEF Inv, Numbered, Newest, Pausing, Creating, None
<1>3. Newest'
  BY <1>a, <1>b, <1>c, Zenon DEF Inv, Numbered, Newest, Pausing, Creating
<1>4. Pointer'
  BY <1>a, <1>b, <1>c, Zenon DEF Inv, Numbered, Newest, Pausing, Creating, Pointer, None
<1>5. SameImage'
  BY <1>a, <1>b, <1>c, Zenon DEF Inv, Numbered, Newest, Pausing, Creating, SameImage
<1>6. Inside'
  BY <1>a, <1>b, <1>c, Zenon DEF Inv, Numbered, Newest, Pausing, Creating, Inside
<1>7. ServesWhatItNames' /\ StrictNeverCold'
  BY <1>a, <1>b, <1>c, Zenon DEF Inv, ServesWhatItNames, StrictNeverCold
<1> QED
  BY <1>1, <1>2, <1>3, <1>4, <1>5, <1>6, <1>7, Zenon DEF Inv

\* DeleteSnapshot keeps the invariant.
LEMMA Step_DeleteSnapshot == Inv /\ DeleteSnapshot => Inv'
<1> SUFFICES ASSUME Inv, DeleteSnapshot PROVE Inv'
  BY Zenon
<1>a. UNCHANGED <<latest, rows, sandbox, n, runs>>
  BY Zenon DEF DeleteSnapshot, journal
<1>b. \/ UNCHANGED objects
      \/ \E i : /\ DOMAIN objects' = DOMAIN objects \ {i}
                /\ \A j \in DOMAIN objects' : objects'[j] = objects[j]
  <2>1. UNCHANGED objects \/ \E i : objects' = Drop(objects, i)
    BY Zenon DEF DeleteSnapshot
  <2> QED
    BY <2>1, Zenon DEF Drop
<1>c. Shape' /\ op'.req.kind = "DeleteSnapshot" /\ op'.pc = "record"
  BY OpEffect, Zenon DEF Inv, DeleteSnapshot, Running
<1>1. Shape' /\ Asked'
  BY <1>a, <1>b, <1>c, Zenon DEF Inv, Shape, Asked, Forgetting
<1>2. Numbered'
  BY <1>a, <1>b, <1>c, Zenon DEF Inv, Numbered, Newest, Pausing, Creating, None
<1>3. Newest'
  BY <1>a, <1>b, <1>c, Zenon DEF Inv, Numbered, Newest, Pausing, Creating
<1>4. Pointer'
  BY <1>a, <1>b, <1>c, Zenon DEF Inv, Numbered, Newest, Pausing, Creating, Pointer, None
<1>5. SameImage'
  BY <1>a, <1>b, <1>c, Zenon DEF Inv, Numbered, Newest, Pausing, Creating, SameImage
<1>6. Inside'
  BY <1>a, <1>b, <1>c, Zenon DEF Inv, Numbered, Newest, Pausing, Creating, Inside
<1>7. ServesWhatItNames' /\ StrictNeverCold'
  BY <1>a, <1>b, <1>c, Zenon DEF Inv, ServesWhatItNames, StrictNeverCold
<1> QED
  BY <1>1, <1>2, <1>3, <1>4, <1>5, <1>6, <1>7, Zenon DEF Inv

\* forget_snapshots keeps the invariant.
LEMMA Step_forget_snapshots == Inv /\ forget_snapshots => Inv'
<1> SUFFICES ASSUME Inv, forget_snapshots PROVE Inv'
  BY Zenon
<1>a. UNCHANGED <<latest, rows, sandbox, n, runs>>
  BY Zenon DEF forget_snapshots, journal
<1>b. \/ UNCHANGED objects
      \/ \E i : /\ DOMAIN objects' = DOMAIN objects \ {i}
                /\ \A j \in DOMAIN objects' : objects'[j] = objects[j]
  <2>1. UNCHANGED objects \/ \E i : objects' = Drop(objects, i)
    BY Zenon DEF forget_snapshots
  <2> QED
    BY <2>1, Zenon DEF Drop
<1>c. Shape' /\ op'.req = op.req /\ op.req.kind = "Destroy" /\ op.pc = "forget"
  <2>1. op.req.kind = "Destroy" /\ op.pc = "forget"
    BY Zenon DEF forget_snapshots, Running
  <2>2. CASE op.todo = {}
    BY <2>1, <2>2, OpEffect, Zenon DEF Inv, forget_snapshots
  <2>3. CASE op.todo # {}
    <3> DEFINE i == CHOOSE x \in op.todo : TRUE
    <3>1. \/ op' = [req |-> op.req, pc |-> "forget_row", lands |-> op.lands, ok |-> op.ok,
                    id |-> i, todo |-> op.todo \ {i}]
          \/ op' = [req |-> op.req, pc |-> op.pc, lands |-> op.lands, ok |-> op.ok,
                    id |-> op.id, todo |-> op.todo \ {i}]
      BY <2>3, Zenon DEF Inv, Shape, forget_snapshots
    <3> QED
      BY <2>1, <3>1 DEF Shape
  <2> QED
    BY <2>2, <2>3, Zenon
<1>1. Shape' /\ Asked'
  BY <1>a, <1>b, <1>c, Zenon DEF Inv, Shape, Asked, Forgetting
<1>2. Numbered'
  BY <1>a, <1>b, <1>c, Zenon DEF Inv, Numbered, Newest, Pausing, Creating, None
<1>3. Newest'
  BY <1>a, <1>b, <1>c, Zenon DEF Inv, Numbered, Newest, Pausing, Creating
<1>4. Pointer'
  BY <1>a, <1>b, <1>c, Zenon DEF Inv, Numbered, Newest, Pausing, Creating, Pointer, None
<1>5. SameImage'
  BY <1>a, <1>b, <1>c, Zenon DEF Inv, Numbered, Newest, Pausing, Creating, SameImage
<1>6. Inside'
  BY <1>a, <1>b, <1>c, Zenon DEF Inv, Numbered, Newest, Pausing, Creating, Inside
<1>7. ServesWhatItNames' /\ StrictNeverCold'
  BY <1>a, <1>b, <1>c, Zenon DEF Inv, ServesWhatItNames, StrictNeverCold
<1> QED
  BY <1>1, <1>2, <1>3, <1>4, <1>5, <1>6, <1>7, Zenon DEF Inv

\* record_pause keeps the invariant.
LEMMA Step_record_pause == Inv /\ record_pause => Inv'
<1> SUFFICES ASSUME Inv, record_pause PROVE Inv'
  BY Zenon
<1>a. UNCHANGED <<sandbox, objects, n, runs>> /\ Pausing
  BY Zenon DEF record_pause, Running, Pausing
<1>b. Shape' /\ op'.req = op.req /\ op'.pc = "final"
  BY OpEffect, Zenon DEF Inv, record_pause
<1>c. op.id = n /\ n \notin DOMAIN rows /\ n \notin DOMAIN objects /\ n \in Nat /\ n > 0
      /\ sandbox.mode = "standby" /\ sandbox.image = n
  BY <1>a DEF Inv, Newest, Numbered
<1>d. \/ UNCHANGED <<latest, rows>>
      \/ /\ latest' = n /\ DOMAIN rows' = DOMAIN rows \cup {n}
         /\ rows'[n].image = n
         /\ \A j \in DOMAIN rows : rows'[j] = rows[j]
  <2>1. CASE insert_snapshot(op.id, RowOf(op.pc = "record", op.id))
    <3>1. RowOf(op.pc = "record", op.id).image = op.id
      BY Zenon DEF RowOf
    <3> QED
      BY <1>c, <2>1, <3>1, Zenon DEF insert_snapshot, Put
  <2> QED
    BY <2>1, Zenon DEF record_pause, journal
<1>1. Shape' /\ Asked'
  BY <1>a, <1>b, <1>c, <1>d, Zenon DEF Inv, Shape, Asked, Forgetting
<1>2. Numbered'
  BY <1>a, <1>b, <1>c, <1>d, Zenon DEF Inv, Numbered, Newest, Pausing, Creating, None
<1>3. Newest'
  BY <1>a, <1>b, <1>c, <1>d, Zenon DEF Inv, Numbered, Newest, Pausing, Creating
<1>4. Pointer'
  BY <1>a, <1>b, <1>c, <1>d DEF Inv, Numbered, Newest, Pausing, Creating, Pointer, None
<1>5. SameImage'
  BY <1>a, <1>b, <1>c, <1>d, Zenon DEF Inv, Numbered, Newest, Pausing, Creating, SameImage
<1>6. Inside'
  BY <1>a, <1>b, <1>c, <1>d DEF Inv, Numbered, Newest, Pausing, Creating, Inside
<1>7. ServesWhatItNames' /\ StrictNeverCold'
  BY <1>a, <1>b, <1>c, <1>d, Zenon DEF Inv, ServesWhatItNames, StrictNeverCold
<1> QED
  BY <1>1, <1>2, <1>3, <1>4, <1>5, <1>6, <1>7, Zenon DEF Inv

\* record_snapshot keeps the invariant.
LEMMA Step_record_snapshot == Inv /\ record_snapshot => Inv'
<1> SUFFICES ASSUME Inv, record_snapshot PROVE Inv'
  BY Zenon
<1>a. UNCHANGED <<sandbox, objects, n, runs>> /\ Creating
  BY Zenon DEF record_snapshot, Running, Creating
<1>b. Shape' /\ op'.req = op.req /\ op'.id = op.id
      /\ (op'.pc = "final" \/ (op'.pc = "compensate" /\ UNCHANGED <<latest, rows>>))
  <2>1. CASE Done
    <3>1. Shape' /\ op'.req = op.req /\ op'.pc = "final" /\ op'.id = op.id
      BY <2>1, OpEffect, Zenon DEF Inv
    <3> QED
      BY <3>1, Zenon
  <2>2. CASE Goto("compensate", op.id) /\ UNCHANGED journal
    BY <2>2, OpEffect, Zenon DEF Inv, journal
  <2> QED
    BY <2>1, <2>2, Zenon DEF record_snapshot
<1>c. op.id = n /\ n \notin DOMAIN rows /\ n \in DOMAIN objects /\ n \in Nat /\ n > 0
      /\ objects[n].image \in 1 .. n
      /\ (sandbox.mode = "standby" => objects[n].image = sandbox.image)
  BY <1>a DEF Inv, Newest, Numbered
<1>d. \/ UNCHANGED <<latest, rows>>
      \/ /\ latest' = n /\ DOMAIN rows' = DOMAIN rows \cup {n}
         /\ rows'[n].image = objects[n].image
         /\ \A j \in DOMAIN rows : rows'[j] = rows[j]
         /\ op'.pc = "final"
  <2>1. CASE insert_snapshot(op.id, RowOf(TRUE, objects[op.id].image)) /\ Done
    <3>1. RowOf(TRUE, objects[op.id].image).image = objects[op.id].image
      BY Zenon DEF RowOf
    <3> QED
      BY <1>c, <2>1, <3>1, OpEffect, Zenon DEF insert_snapshot, Put, Inv
  <2> QED
    BY <2>1, Zenon DEF record_snapshot, journal
<1>1. Shape' /\ Asked'
  BY <1>a, <1>b, <1>c, <1>d, Zenon DEF Inv, Shape, Asked, Forgetting
<1>2. Numbered'
  BY <1>a, <1>b, <1>c, <1>d, Zenon DEF Inv, Numbered, Newest, Pausing, Creating, None
<1>3. Newest'
  BY <1>a, <1>b, <1>c, <1>d, Zenon DEF Inv, Numbered, Newest, Pausing, Creating
<1>4. Pointer'
  BY <1>a, <1>b, <1>c, <1>d DEF Inv, Numbered, Newest, Pausing, Creating, Pointer, None
<1>5. SameImage'
  BY <1>a, <1>b, <1>c, <1>d, Zenon DEF Inv, Numbered, Newest, Pausing, Creating, SameImage
<1>6. Inside'
  BY <1>a, <1>b, <1>c, <1>d DEF Inv, Numbered, Newest, Pausing, Creating, Inside
<1>7. ServesWhatItNames' /\ StrictNeverCold'
  BY <1>a, <1>b, <1>c, <1>d, Zenon DEF Inv, ServesWhatItNames, StrictNeverCold
<1> QED
  BY <1>1, <1>2, <1>3, <1>4, <1>5, <1>6, <1>7, Zenon DEF Inv

\* journal_delete keeps the invariant.
LEMMA Step_journal_delete == Inv /\ journal_delete => Inv'
<1> SUFFICES ASSUME Inv, journal_delete PROVE Inv'
  BY Zenon
<1>a. UNCHANGED <<sandbox, objects, n, runs>> /\ op.req.kind = "DeleteSnapshot"
  BY Zenon DEF journal_delete, Running
<1>b. Shape' /\ op'.req = op.req /\ op'.pc = "final"
  BY OpEffect, Zenon DEF Inv, journal_delete
<1>c. /\ DOMAIN rows' \subseteq DOMAIN rows
      /\ \A j \in DOMAIN rows' : rows'[j] = rows[j]
      /\ \/ latest' = None
         \/ latest' = latest /\ (latest \in DOMAIN rows => latest \in DOMAIN rows')
  <2>1. UNCHANGED <<latest, rows>> \/ delete_snapshot_row(op.id)
    BY Zenon DEF journal_delete, journal
  <2> QED
    BY <2>1, Zenon DEF delete_snapshot_row, Drop
<1>1. Shape' /\ Asked'
  BY <1>a, <1>b, <1>c, Zenon DEF Inv, Shape, Asked, Forgetting
<1>2. Numbered'
  BY <1>a, <1>b, <1>c DEF Inv, Numbered, Newest, Pausing, Creating, None
<1>3. Newest'
  BY <1>a, <1>b, <1>c, Zenon DEF Inv, Numbered, Newest, Pausing, Creating
<1>4. Pointer'
  BY <1>a, <1>b, <1>c, Zenon DEF Inv, Numbered, Newest, Pausing, Creating, Pointer, None
<1>5. SameImage'
  BY <1>a, <1>b, <1>c, Zenon DEF Inv, Numbered, Newest, Pausing, Creating, SameImage
<1>6. Inside'
  BY <1>a, <1>b, <1>c, Zenon DEF Inv, Numbered, Newest, Pausing, Creating, Inside
<1>7. ServesWhatItNames' /\ StrictNeverCold'
  BY <1>a, <1>b, <1>c, Zenon DEF Inv, ServesWhatItNames, StrictNeverCold
<1> QED
  BY <1>1, <1>2, <1>3, <1>4, <1>5, <1>6, <1>7, Zenon DEF Inv

\* forget_row keeps the invariant.
LEMMA Step_forget_row == Inv /\ forget_row => Inv'
<1> SUFFICES ASSUME Inv, forget_row PROVE Inv'
  BY Zenon
<1>a. UNCHANGED <<sandbox, objects, n, runs>> /\ op.req.kind = "Destroy" /\ op.pc = "forget_row"
  BY Zenon DEF forget_row, Running
<1>b. Shape' /\ op'.req = op.req /\ op'.pc = "forget"
  BY OpEffect, Zenon DEF Inv, forget_row
<1>c. /\ DOMAIN rows' \subseteq DOMAIN rows
      /\ \A j \in DOMAIN rows' : rows'[j] = rows[j]
      /\ \/ latest' = None
         \/ latest' = latest /\ (latest \in DOMAIN rows => latest \in DOMAIN rows')
  <2>1. UNCHANGED <<latest, rows>> \/ delete_snapshot_row(op.id)
    BY Zenon DEF forget_row, journal
  <2> QED
    BY <2>1, Zenon DEF delete_snapshot_row, Drop
<1>1. Shape' /\ Asked'
  BY <1>a, <1>b, <1>c, Zenon DEF Inv, Shape, Asked, Forgetting
<1>2. Numbered'
  BY <1>a, <1>b, <1>c DEF Inv, Numbered, Newest, Pausing, Creating, None
<1>3. Newest'
  BY <1>a, <1>b, <1>c, Zenon DEF Inv, Numbered, Newest, Pausing, Creating
<1>4. Pointer'
  BY <1>a, <1>b, <1>c, Zenon DEF Inv, Numbered, Newest, Pausing, Creating, Pointer, None
<1>5. SameImage'
  BY <1>a, <1>b, <1>c, Zenon DEF Inv, Numbered, Newest, Pausing, Creating, SameImage
<1>6. Inside'
  BY <1>a, <1>b, <1>c, Zenon DEF Inv, Numbered, Newest, Pausing, Creating, Inside
<1>7. ServesWhatItNames' /\ StrictNeverCold'
  BY <1>a, <1>b, <1>c, Zenon DEF Inv, ServesWhatItNames, StrictNeverCold
<1> QED
  BY <1>1, <1>2, <1>3, <1>4, <1>5, <1>6, <1>7, Zenon DEF Inv

\* Pause keeps the invariant.
LEMMA Step_Pause == Inv /\ Pause => Inv'
<1> SUFFICES ASSUME Inv, Pause PROVE Inv'
  BY Zenon
<1>a. UNCHANGED <<latest, rows, objects, runs>> /\ n' = n + 1
      /\ sandbox'.mode = "standby" /\ sandbox'.image = n + 1 /\ op.req.kind = "Pause"
  BY Zenon DEF Pause, journal, Running
<1>b. /\ Shape' /\ op'.req = op.req
      /\ op'.pc = "final" \/ (op'.pc \in {"record", "record_disk"} /\ op'.id = n + 1)
  <2>1. CASE Failed
    <3>1. Shape' /\ op'.req = op.req /\ op'.pc = "final"
      BY <2>1, OpEffect, Zenon DEF Inv
    <3> QED
      BY <3>1, Zenon
  <2>2. CASE \E pc \in {"record", "record_disk"} : Goto(pc, n')
    <3>1. PICK pc \in {"record", "record_disk"} : Goto(pc, n')
      BY <2>2, Zenon
    <3> QED
      BY <1>a, <3>1, OpEffect, Zenon DEF Inv
  <2>3. Failed \/ Goto("record", n') \/ Goto("record_disk", n')
    BY Zenon DEF Pause, Unconfirmed
  <2> QED
    BY <2>1, <2>2, <2>3, Zenon
<1>1. Shape' /\ Asked'
  BY <1>a, <1>b, Zenon DEF Inv, Shape, Asked, Forgetting
<1>2. Numbered'
  BY <1>a, <1>b DEF Inv, Numbered, Newest, Pausing, Creating, None
<1>3. Newest'
  BY <1>a, <1>b DEF Inv, Numbered, Newest, Pausing, Creating
<1>4. Pointer'
  BY <1>a, <1>b, Zenon DEF Inv, Numbered, Newest, Pausing, Creating, Pointer, None
<1>5. SameImage'
  BY <1>a, <1>b, Zenon DEF Inv, Numbered, Newest, Pausing, Creating, SameImage
<1>6. Inside'
  BY <1>a, <1>b DEF Inv, Numbered, Newest, Pausing, Creating, Inside
<1>7. ServesWhatItNames' /\ StrictNeverCold'
  BY <1>a, <1>b, Zenon DEF Inv, ServesWhatItNames, StrictNeverCold
<1> QED
  BY <1>1, <1>2, <1>3, <1>4, <1>5, <1>6, <1>7, Zenon DEF Inv

\* CreateSnapshot keeps the invariant.
LEMMA Step_CreateSnapshot == Inv /\ CreateSnapshot => Inv'
<1> SUFFICES ASSUME Inv, CreateSnapshot PROVE Inv'
  BY Zenon
<1>a. UNCHANGED <<latest, rows, sandbox, runs>> /\ n' = n + 1
      /\ op.req.kind = "CreateSnapshot"
  BY Zenon DEF CreateSnapshot, journal, Running
<1>b. /\ DOMAIN objects' = DOMAIN objects \cup {n + 1}
      /\ objects'[n + 1].image = IF sandbox.mode = "standby" THEN sandbox.image ELSE n + 1
      /\ \A j \in DOMAIN objects : objects'[j] = objects[j]
  <2>1. objects' = Put(objects, n + 1,
            [image |-> IF sandbox.mode = "standby" THEN sandbox.image ELSE n + 1,
             name |-> op.req.name])
    BY Zenon DEF CreateSnapshot
  <2>2. n + 1 \notin DOMAIN objects
    BY DEF Inv, Numbered
  <2> QED
    BY <2>1, <2>2, Zenon DEF Put
<1>c. /\ Shape' /\ op'.req = op.req
      /\ op'.pc = "final" \/ (op'.pc = "record" /\ op'.id = n + 1)
  <2>1. CASE Failed
    <3>1. Shape' /\ op'.req = op.req /\ op'.pc = "final"
      BY <2>1, OpEffect, Zenon DEF Inv
    <3> QED
      BY <3>1, Zenon
  <2>2. CASE Goto("record", n')
    BY <1>a, <2>2, OpEffect, Zenon DEF Inv
  <2> QED
    BY <2>1, <2>2, Zenon DEF CreateSnapshot, Unconfirmed
<1>1. Shape' /\ Asked'
  BY <1>a, <1>b, <1>c, Zenon DEF Inv, Shape, Asked, Forgetting
<1>2. Numbered'
  BY <1>a, <1>b, <1>c DEF Inv, Numbered, Newest, Pausing, Creating, None
<1>3. Newest'
  BY <1>a, <1>b, <1>c DEF Inv, Numbered, Newest, Pausing, Creating
<1>4. Pointer'
  BY <1>a, <1>b, <1>c, Zenon DEF Inv, Numbered, Newest, Pausing, Creating, Pointer, None
<1>5. SameImage'
  BY <1>a, <1>b, <1>c DEF Inv, Numbered, Newest, Pausing, Creating, SameImage
<1>6. Inside'
  BY <1>a, <1>b, <1>c, Zenon DEF Inv, Numbered, Newest, Pausing, Creating, Inside
<1>7. ServesWhatItNames' /\ StrictNeverCold'
  BY <1>a, <1>b, <1>c, Zenon DEF Inv, ServesWhatItNames, StrictNeverCold
<1> QED
  BY <1>1, <1>2, <1>3, <1>4, <1>5, <1>6, <1>7, Zenon DEF Inv

\* Destroy keeps the invariant.
LEMMA Step_Destroy == Inv /\ Destroy => Inv'
<1> SUFFICES ASSUME Inv, Destroy PROVE Inv'
  BY Zenon
<1>a. UNCHANGED <<latest, rows, objects, n, runs>> /\ sandbox'.mode = "none"
      /\ op.req.kind = "Destroy"
  BY Zenon DEF Destroy, journal, Running
<1>b. Shape' /\ op'.req = op.req /\ (op'.pc = "final" \/ (op'.pc = "forget" /\ ~op.req.flag))
  <2>1. CASE forgets
    <3>1. op' = [req |-> op.req, pc |-> "forget", lands |-> op.lands, ok |-> op.ok,
                 id |-> op.id, todo |-> DOMAIN rows]
      BY <2>1, Zenon DEF Destroy, Inv, Shape
    <3> QED
      BY <2>1, <3>1, Zenon DEF Shape, forgets
  <2>2. CASE ~forgets
    <3>1. Shape' /\ op'.req = op.req /\ op'.pc = "final"
      BY <2>2, OpEffect, Zenon DEF Inv, Destroy
    <3> QED
      BY <3>1, Zenon
  <2> QED
    BY <2>1, <2>2, Zenon
<1>1. Shape' /\ Asked'
  BY <1>a, <1>b, Zenon DEF Inv, Shape, Asked, Forgetting
<1>2. Numbered'
  BY <1>a, <1>b, Zenon DEF Inv, Numbered, Newest, Pausing, Creating, None
<1>3. Newest'
  BY <1>a, <1>b, Zenon DEF Inv, Numbered, Newest, Pausing, Creating
<1>4. Pointer'
  BY <1>a, <1>b, Zenon DEF Inv, Numbered, Newest, Pausing, Creating, Pointer, None
<1>5. SameImage'
  BY <1>a, <1>b, Zenon DEF Inv, Numbered, Newest, Pausing, Creating, SameImage
<1>6. Inside'
  BY <1>a, <1>b, Zenon DEF Inv, Numbered, Newest, Pausing, Creating, Inside
<1>7. ServesWhatItNames' /\ StrictNeverCold'
  BY <1>a, <1>b, Zenon DEF Inv, ServesWhatItNames, StrictNeverCold
<1> QED
  BY <1>1, <1>2, <1>3, <1>4, <1>5, <1>6, <1>7, Zenon DEF Inv

\* A resume keeps the invariant.  From memory, in place: the image of the sandbox is that of
\* the row the pointer names, if it is in the journal at all.  From memory, by an id: the
\* object has the image of its row.  Otherwise it is cold, which is never strict.
LEMMA Step_Resume == Inv /\ Resume => Inv'
<1> SUFFICES ASSUME Inv, Resume PROVE Inv'
  BY Zenon
<1> DEFINE i == op.req.id
           cameFrom(image) ==
              [memory |-> image, strict |-> op.req.flag, clean |-> Journaled,
               wanted |-> IF i \in DOMAIN rows THEN rows[i].image ELSE None]
<1>a. UNCHANGED <<latest, rows, objects, n>>
  BY Zenon DEF Resume, journal
<1>b. Shape' /\ op'.req = op.req /\ op'.pc = "final"
  <2>1. Done \/ Failed
    BY Zenon DEF Resume, resolve_restore, decide
  <2> QED
    BY <2>1, OpEffect, Zenon DEF Inv
<1>c. sandbox' = sandbox \/ sandbox'.mode = "running"
  BY DEF Resume, resolve_restore, decide
<1>1. Shape' /\ Asked'
  BY <1>b, Zenon DEF Asked, Forgetting
<1>2. Numbered'
  BY <1>a, <1>c, Zenon DEF Inv, Numbered
<1>3. Newest'
  BY <1>b, Zenon DEF Newest, Pausing, Creating
<1>4. Pointer' /\ SameImage'
  BY <1>a, Zenon DEF Inv, Pointer, SameImage
<1>5. Inside'
  BY <1>a, <1>c, Zenon DEF Inv, Inside
<1>6. ServesWhatItNames' /\ StrictNeverCold'
  <2>1. CASE UNCHANGED runs
    BY <2>1, Zenon DEF Inv, ServesWhatItNames, StrictNeverCold
  <2>2. CASE /\ resolve_restore(i, op.req.flag) = "FromMemory" /\ restore_target(i) = None
             /\ sandbox.mode = "standby" /\ runs' = cameFrom(sandbox.image)
    <3>1. sandbox.image \in Nat /\ sandbox.image > 0
      BY <2>2 DEF Inv, Numbered
    <3>2. ASSUME i \in DOMAIN rows, Journaled
          PROVE  rows[i].image = sandbox.image
      <4>1. i \in Nat /\ i > 0
        BY <3>2 DEF Inv, Numbered
      <4>2. i = latest /\ latest # None
        BY <2>2, <4>1 DEF restore_target, None
      <4>3. PICK j \in DOMAIN rows : rows[j].image = sandbox.image
        BY <3>2, Zenon DEF Journaled
      <4>4. j \in Nat /\ sandbox.image <= j
        BY <4>3 DEF Inv, Numbered
      <4>5. j <= latest
        BY <4>2, <4>3, Zenon DEF Inv, Pointer
      <4>6. sandbox.image <= i
        BY <3>1, <4>1, <4>2, <4>4, <4>5
      <4> QED
        BY <2>2, <3>2, <4>6, Zenon DEF Inv, Inside
    <3> QED
      BY <2>2, <3>1, <3>2 DEF ServesWhatItNames, StrictNeverCold, Cold, None
  <2>3. CASE /\ resolve_restore(i, op.req.flag) = "FromMemory" /\ restore_target(i) # None
             /\ restore_target(i) \in DOMAIN objects
             /\ runs' = cameFrom(objects[restore_target(i)].image)
    <3>1. restore_target(i) = i /\ i \in DOMAIN objects
      BY <2>3, Zenon DEF restore_target
    <3>2. objects[i].image \in Nat /\ objects[i].image > 0
      BY <3>1 DEF Inv, Numbered
    <3>3. i \in DOMAIN rows => rows[i].image = objects[i].image
      BY <3>1, Zenon DEF Inv, SameImage
    <3> QED
      BY <2>3, <3>1, <3>2, <3>3 DEF ServesWhatItNames, StrictNeverCold, Cold, None
  <2>4. CASE resolve_restore(i, op.req.flag) = "ColdBoot" /\ runs' = cameFrom(Cold)
    <3>1. ~op.req.flag
      BY <2>4, Zenon DEF resolve_restore, decide
    <3> QED
      BY <2>4, <3>1, Zenon DEF ServesWhatItNames, StrictNeverCold
  <2> QED
    BY <2>1, <2>2, <2>3, <2>4, Zenon DEF Resume, resume_in_place, resume_by_id, resolve_restore,
       decide
<1> QED
  BY <1>1, <1>2, <1>3, <1>4, <1>5, <1>6, Zenon DEF Inv

\* A submission keeps the invariant: it changes nothing but itself.
LEMMA Step_submit == ASSUME NEW r \in Requests PROVE Inv /\ submit(r) => Inv'
BY DEF submit, journal, Inv, Shape, Numbered, Newest, Pausing, Creating, Forgetting, Pointer,
       SameImage, Inside, Asked, ServesWhatItNames, StrictNeverCold

-----------------------------------------------------------------------------
(* The theorems                                                            *)

\* Every step keeps the invariant.
LEMMA StepInv == Inv /\ [Next]_vars => Inv'
<1> SUFFICES ASSUME Inv, [Next]_vars PROVE Inv'
  BY Zenon
<1>1. CASE UNCHANGED vars
  BY <1>1 DEF vars, Inv, Shape, Numbered, Newest, Pausing, Creating, Forgetting, Pointer,
       SameImage, Inside, Asked, ServesWhatItNames, StrictNeverCold
<1>2. CASE Execute
  BY Zenon, <1>2, Step_Start, Step_Stop, Step_Pause, Step_record_pause, Step_Resume,
     Step_CreateSnapshot, Step_record_snapshot, Step_compensate, Step_DeleteSnapshot,
     Step_journal_delete, Step_Destroy, Step_forget_snapshots, Step_forget_row,
     Step_SubstrateFails, Step_finalize DEF Execute
<1> QED
  BY <1>1, <1>2, Step_submit, Step_submit_atomically, Step_CrashRecover, Zenon DEF Next

\* The invariant holds always.
LEMMA AlwaysInv == Spec => []Inv
  BY InitInv, StepInv, PTL DEF Spec

\* A resume that names a snapshot brings back that snapshot's memory or none, whatever pauses,
\* captures, deletions, crashes and failed writes came in between (restore_target,
\* resolve_restore, insert_snapshot).
THEOREM MemoryIsTheNamed == Spec => []ServesWhatItNames
<1>1. Inv => ServesWhatItNames
  BY Zenon DEF Inv
<1> QED
  BY <1>1, AlwaysInv, PTL

\* A resume with require_memory never comes up cold, although what it was checked against may
\* have changed when it runs (decide, resolve_restore).
THEOREM StrictIsNeverCold == Spec => []StrictNeverCold
<1>1. Inv => StrictNeverCold
  BY Zenon DEF Inv
<1> QED
  BY <1>1, AlwaysInv, PTL

\* The pointer to the latest snapshot names a row, across deletions, failed writes and crashes
\* (insert_snapshot, delete_snapshot).
THEOREM PointerAlwaysResolves == Spec => []PointerResolves
<1>1. Inv => PointerResolves
  BY Zenon DEF Inv, Pointer, PointerResolves
<1> QED
  BY <1>1, AlwaysInv, PTL

\* An explicit snapshot leaves the substrate only because its deletion was asked for, or
\* because nothing ever listed it (Destroy, forget_snapshots, compensate).
THEOREM SnapshotsAreKept == Spec => KeptUntilAsked
<1> DEFINE Kept == \A i \in DOMAIN objects \ DOMAIN objects' : MayLeave(i)
<1>1. Inv /\ [Next]_vars => [Kept]_vars
  <2> SUFFICES ASSUME Inv, Next PROVE Kept
    BY Zenon
  <2> HIDE DEF Kept
  <2>1. CASE compensate
    <3>1. op.id = n /\ n \notin DOMAIN rows
      BY <2>1, Zenon DEF compensate, Running, Inv, Newest, Creating
    <3>2. objects' = objects \/ objects' = Drop(objects, op.id)
      BY <2>1, Zenon DEF compensate
    <3> QED
      BY <3>1, <3>2, Zenon DEF Kept, MayLeave, Drop
  <2>2. CASE DeleteSnapshot
    <3>1. op.req.kind = "DeleteSnapshot" /\ objects' = Drop(objects, op.req.id)
      BY <2>2, Zenon DEF DeleteSnapshot, Running
    <3> QED
      BY <3>1, Zenon DEF Kept, MayLeave, Drop
  <2>3. CASE forget_snapshots
    <3>1. op.req.kind = "Destroy" /\ ~op.req.flag
      BY <2>3, Zenon DEF forget_snapshots, Running, Inv, Asked, Forgetting
    <3> QED
      BY <3>1, Zenon DEF Kept, MayLeave
  <2>4. CASE CreateSnapshot
    <3>1. DOMAIN objects \subseteq DOMAIN objects'
      BY <2>4, Zenon DEF CreateSnapshot, Put
    <3> QED
      BY <3>1, Zenon DEF Kept, MayLeave
  <2>5. CASE UNCHANGED objects
    BY <2>5, Zenon DEF Kept, MayLeave
  <2> QED
    BY <2>1, <2>2, <2>3, <2>4, <2>5, Zenon DEF Next, Execute, submit, submit_atomically, Start,
       Stop,
       Pause, record_pause, Resume, record_snapshot, journal_delete, Destroy, forget_row,
       SubstrateFails, finalize, CrashRecover
<1> QED
  BY <1>1, AlwaysInv, PTL DEF Spec, KeptUntilAsked

-----------------------------------------------------------------------------
(* Journal and substrate                                                   *)

(* The rows of explicit snapshots, and the two moments at which the substrate is one step *)
(* ahead of them. *)
Explicit == {i \in DOMAIN rows : ~rows[i].minted}
Adding == op.req.kind = "CreateSnapshot" /\ op.pc = "record"
Removing == \/ op.req.kind = "DeleteSnapshot" /\ op.pc = "record"
            \/ op.req.kind = "Destroy" /\ op.pc = "forget_row"
Undisturbed == crashes = 0 /\ faults = 0

Matched ==
    /\ faults \in Nat /\ crashes \in Nat
    /\ Undisturbed =>
          /\ op.pc # "compensate"
          /\ Adding => DOMAIN objects = Explicit \cup {op.id}
          /\ Removing => DOMAIN objects = Explicit \ {op.id}
          /\ ~Adding /\ ~Removing => DOMAIN objects = Explicit

\* The initial state matches.
LEMMA InitMatched == Init => Matched
BY DEF Init, Matched, Undisturbed, Explicit, Adding, Removing, NoOp, NoRequest

\* A step that leaves rows, objects and the operation's place alone, or ends an operation that
\* was not ahead, keeps the match.
LEMMA QuietMatched ==
    ASSUME Matched, UNCHANGED <<rows, objects>>,
           faults' \in Nat /\ crashes' \in Nat, Undisturbed' => Undisturbed,
           Undisturbed' => ~Adding /\ ~Removing /\ ~Adding' /\ ~Removing' /\ op'.pc # "compensate"
    PROVE  Matched'
BY Zenon DEF Matched, Explicit

\* Start keeps the match.
LEMMA Match_Start == Inv /\ Matched /\ Start => Matched'
<1> SUFFICES ASSUME Inv, Matched, Start PROVE Matched'
  BY Zenon
<1>1. op.pc = "run" /\ op'.pc = "final"
  BY OpEffect, Zenon DEF Inv, Start, Running, journal, bounds
<1> QED
  BY <1>1, QuietMatched, Zenon DEF Start, Running, journal, bounds, Matched, Undisturbed,
     Adding, Removing

\* Stop keeps the match.
LEMMA Match_Stop == Inv /\ Matched /\ Stop => Matched'
<1> SUFFICES ASSUME Inv, Matched, Stop PROVE Matched'
  BY Zenon
<1>1. op.pc = "run" /\ op'.pc = "final"
  BY OpEffect, Zenon DEF Inv, Stop, Running, journal, bounds
<1> QED
  BY <1>1, QuietMatched, Zenon DEF Stop, Running, journal, bounds, Matched, Undisturbed, Adding,
     Removing

\* SubstrateFails keeps the match.
LEMMA Match_SubstrateFails == Inv /\ Matched /\ SubstrateFails => Matched'
<1> SUFFICES ASSUME Inv, Matched, SubstrateFails PROVE Matched'
  BY Zenon
<1>1. op.pc = "run" /\ op'.pc = "final"
  BY OpEffect, Zenon DEF Inv, SubstrateFails, journal, bounds
<1> QED
  BY <1>1, QuietMatched, Zenon DEF SubstrateFails, journal, bounds, Matched, Undisturbed,
     Adding, Removing

\* Resume keeps the match.
LEMMA Match_Resume == Inv /\ Matched /\ Resume => Matched'
<1> SUFFICES ASSUME Inv, Matched, Resume PROVE Matched'
  BY Zenon
<1>1. op.pc = "run" /\ op'.pc = "final"
  <2>1. Done \/ Failed
    BY Zenon DEF Resume, resolve_restore, decide
  <2> QED
    BY <2>1, OpEffect, Zenon DEF Inv, Resume, Running
<1> QED
  BY <1>1, QuietMatched, Zenon DEF Resume, journal, bounds, Matched, Undisturbed, Adding,
     Removing

\* Pause keeps the match.
LEMMA Match_Pause == Inv /\ Matched /\ Pause => Matched'
<1> SUFFICES ASSUME Inv, Matched, Pause PROVE Matched'
  BY Zenon
<1>1. op.pc = "run" /\ op.req.kind = "Pause" /\ op'.req = op.req /\ op'.pc # "compensate"
  <2>1. Failed \/ Goto("record", n') \/ Goto("record_disk", n')
    BY Zenon DEF Pause, Unconfirmed
  <2>2. Failed => op'.req = op.req /\ op'.pc # "compensate"
    BY OpEffect, Zenon DEF Inv
  <2>3. Goto("record", n') \/ Goto("record_disk", n') => op'.req = op.req /\ op'.pc # "compensate"
    BY OpEffect DEF Inv
  <2> QED
    BY <2>1, <2>2, <2>3, Zenon DEF Pause, Running
<1>2. UNCHANGED <<rows, objects, crashes>> /\ (faults' = faults \/ faults' = faults + 1)
  BY Zenon DEF Pause, journal, NoFault, Unconfirmed, Fault
<1> QED
  BY <1>1, <1>2, QuietMatched DEF Matched, Undisturbed, Adding, Removing

\* finalize keeps the match.
LEMMA Match_finalize == Inv /\ Matched /\ finalize => Matched'
<1> SUFFICES ASSUME Inv, Matched, finalize PROVE Matched'
  BY Zenon
<1>1. op.pc = "final" /\ op'.pc = "none" /\ UNCHANGED <<rows, objects, crashes, faults>>
  BY Zenon DEF finalize, NoOp, journal, bounds
<1> QED
  BY <1>1, QuietMatched, Zenon DEF Matched, Undisturbed, Adding, Removing

\* record_pause keeps the match.
LEMMA Match_record_pause == Inv /\ Matched /\ record_pause => Matched'
<1> SUFFICES ASSUME Inv, Matched, record_pause PROVE Matched'
  BY Zenon
<1>1. Pausing /\ op'.pc = "final" /\ UNCHANGED <<objects, crashes>>
  BY OpEffect, Zenon DEF Inv, record_pause, Running, Pausing
<1>2. n \notin DOMAIN rows /\ op.id = n
  BY <1>1, Zenon DEF Inv, Newest
<1>3. faults' \in Nat /\ (Undisturbed' => Undisturbed)
  BY <1>1 DEF record_pause, Fault, NoFault, Matched, Undisturbed
<1>4. Undisturbed' => Explicit' = Explicit
  <2>1. SUFFICES ASSUME Undisturbed' PROVE Explicit' = Explicit
    BY Zenon
  <2>2. rows' = Put(rows, n, RowOf(op.pc = "record", n))
    BY <1>1, <1>2, <2>1 DEF record_pause, Fault, Matched, Undisturbed, insert_snapshot
  <2>3. RowOf(op.pc = "record", n).minted
    BY <1>1, Zenon DEF RowOf, Pausing
  <2> QED
    BY <1>2, <2>2, <2>3, Zenon DEF Put, Explicit
<1> QED
  BY <1>1, <1>3, <1>4, Zenon DEF Matched, Adding, Removing, Pausing

\* submit_atomically keeps the match.
LEMMA Match_submit_atomically == Inv /\ Matched /\ submit_atomically => Matched'
<1> SUFFICES ASSUME Inv, Matched, submit_atomically PROVE Matched'
  BY Zenon
<1>1. UNCHANGED <<rows, objects, crashes, faults>>
  BY Zenon DEF submit_atomically, journal, bounds
<1>2. CASE UNCHANGED op
  BY <1>1, <1>2, Zenon DEF Matched, Undisturbed, Explicit, Adding, Removing
<1>3. CASE op = NoOp /\ op'.pc = "run"
  <2>1. op.pc = "none"
    BY <1>3, Zenon DEF NoOp
  <2> QED
    BY <1>1, <1>3, <2>1, QuietMatched, Zenon DEF Matched, Undisturbed, Adding, Removing
<1> QED
  BY <1>2, <1>3, Zenon DEF submit_atomically, NoOp

\* CreateSnapshot keeps the match.
LEMMA Match_CreateSnapshot == Inv /\ Matched /\ CreateSnapshot => Matched'
<1> SUFFICES ASSUME Inv, Matched, CreateSnapshot PROVE Matched'
  BY Zenon
<1>1. op.pc = "run" /\ op.req.kind = "CreateSnapshot" /\ UNCHANGED <<rows, crashes>>
  BY Zenon DEF CreateSnapshot, Running, journal
<1>2. DOMAIN objects' = DOMAIN objects \cup {n + 1} /\ n' = n + 1
  BY Zenon DEF CreateSnapshot, Put
<1>3. CASE Goto("record", n') /\ NoFault
  <2>1. op'.req = op.req /\ op'.pc = "record" /\ op'.id = n + 1
    BY <1>2, <1>3, OpEffect, Zenon DEF Inv
  <2> QED
    BY <1>1, <1>2, <1>3, <2>1, Zenon DEF NoFault, Matched, Undisturbed, Explicit, Adding,
       Removing
<1>4. CASE Unconfirmed
  BY <1>1, <1>4 DEF Unconfirmed, Fault, Matched, Undisturbed
<1> QED
  BY <1>3, <1>4, Zenon DEF CreateSnapshot

\* record_snapshot keeps the match.
LEMMA Match_record_snapshot == Inv /\ Matched /\ record_snapshot => Matched'
<1> SUFFICES ASSUME Inv, Matched, record_snapshot PROVE Matched'
  BY Zenon
<1>1. Adding /\ Creating /\ UNCHANGED <<objects, crashes>>
  BY Zenon DEF record_snapshot, Running, Adding, Creating
<1>2. n \notin DOMAIN rows /\ op.id = n
  BY <1>1, Zenon DEF Inv, Newest
<1>3. CASE insert_snapshot(op.id, RowOf(TRUE, objects[op.id].image)) /\ NoFault /\ Done
  <2>1. op'.pc = "final" /\ op'.req = op.req
    BY <1>3, OpEffect, Zenon DEF Inv
  <2>2. rows' = Put(rows, n, RowOf(TRUE, objects[n].image))
    BY <1>2, <1>3, Zenon DEF insert_snapshot
  <2>3. ~RowOf(TRUE, objects[n].image).minted
    BY <1>1, Zenon DEF RowOf, Creating
  <2>4. Explicit' = Explicit \cup {n}
    BY <1>2, <2>2, <2>3, Zenon DEF Put, Explicit
  <2> QED
    BY <1>1, <1>2, <1>3, <2>1, <2>4, Zenon DEF NoFault, Matched, Undisturbed, Adding, Removing
<1>4. CASE Fault
  BY <1>1, <1>4 DEF Fault, Matched, Undisturbed
<1> QED
  BY <1>3, <1>4, Zenon DEF record_snapshot

\* compensate keeps the match.
LEMMA Match_compensate == Inv /\ Matched /\ compensate => Matched'
<1> SUFFICES ASSUME Inv, Matched, compensate PROVE Matched'
  BY Zenon
<1>1. op.pc = "compensate" /\ UNCHANGED <<crashes, faults>>
  BY Zenon DEF compensate, Running, bounds
<1> QED
  BY <1>1, Zenon DEF Matched, Undisturbed

\* DeleteSnapshot keeps the match.
LEMMA Match_DeleteSnapshot == Inv /\ Matched /\ DeleteSnapshot => Matched'
<1> SUFFICES ASSUME Inv, Matched, DeleteSnapshot PROVE Matched'
  BY Zenon
<1>1. op.pc = "run" /\ UNCHANGED <<rows, crashes, faults>>
      /\ DOMAIN objects' = DOMAIN objects \ {op.req.id}
  BY Zenon DEF DeleteSnapshot, Running, journal, bounds, Drop
<1>2. op'.req.kind = "DeleteSnapshot" /\ op'.pc = "record" /\ op'.id = op.req.id
  BY OpEffect, Zenon DEF Inv, DeleteSnapshot, Running
<1> QED
  BY <1>1, <1>2, Zenon DEF Matched, Undisturbed, Explicit, Adding, Removing

\* journal_delete keeps the match.
LEMMA Match_journal_delete == Inv /\ Matched /\ journal_delete => Matched'
<1> SUFFICES ASSUME Inv, Matched, journal_delete PROVE Matched'
  BY Zenon
<1>1. Removing /\ ~Adding /\ UNCHANGED <<objects, crashes>>
  BY Zenon DEF journal_delete, Running, Removing, Adding
<1>2. op'.req = op.req /\ op'.pc = "final"
  BY OpEffect, Zenon DEF Inv, journal_delete
<1>3. CASE delete_snapshot_row(op.id) /\ NoFault
  <2>1. Explicit' = Explicit \ {op.id}
    BY <1>3, Zenon DEF delete_snapshot_row, Drop, Explicit
  <2> QED
    BY <1>1, <1>2, <1>3, <2>1, Zenon DEF NoFault, Matched, Undisturbed, Adding, Removing,
       journal_delete, Running
<1>4. CASE Fault
  BY <1>1, <1>4 DEF Fault, Matched, Undisturbed
<1> QED
  BY <1>3, <1>4, Zenon DEF journal_delete

\* forget_row keeps the match.
LEMMA Match_forget_row == Inv /\ Matched /\ forget_row => Matched'
<1> SUFFICES ASSUME Inv, Matched, forget_row PROVE Matched'
  BY Zenon
<1>1. Removing /\ ~Adding /\ UNCHANGED <<objects, crashes>>
  BY Zenon DEF forget_row, Running, Removing, Adding
<1>2. op'.req = op.req /\ op'.pc = "forget"
  BY OpEffect, Zenon DEF Inv, forget_row
<1>3. CASE delete_snapshot_row(op.id) /\ NoFault
  <2>1. Explicit' = Explicit \ {op.id}
    BY <1>3, Zenon DEF delete_snapshot_row, Drop, Explicit
  <2> QED
    BY <1>1, <1>2, <1>3, <2>1, Zenon DEF NoFault, Matched, Undisturbed, Adding, Removing,
       forget_row, Running
<1>4. CASE Fault
  BY <1>1, <1>4 DEF Fault, Matched, Undisturbed
<1> QED
  BY <1>3, <1>4, Zenon DEF forget_row

\* Destroy keeps the match.
LEMMA Match_Destroy == Inv /\ Matched /\ Destroy => Matched'
<1> SUFFICES ASSUME Inv, Matched, Destroy PROVE Matched'
  BY Zenon
<1>1. op.pc = "run" /\ UNCHANGED <<rows, objects, crashes, faults>>
  BY Zenon DEF Destroy, Running, journal, bounds
<1>2. op'.pc \in {"final", "forget"}
  <2>1. CASE forgets
    BY <2>1, Zenon DEF Destroy, Inv, Shape
  <2>2. CASE ~forgets
    BY <2>2, OpEffect, Zenon DEF Destroy, Inv
  <2> QED
    BY <2>1, <2>2, Zenon
<1> QED
  BY <1>1, <1>2, QuietMatched, Zenon DEF Matched, Undisturbed, Adding, Removing

\* forget_snapshots keeps the match.
LEMMA Match_forget_snapshots == Inv /\ Matched /\ forget_snapshots => Matched'
<1> SUFFICES ASSUME Inv, Matched, forget_snapshots PROVE Matched'
  BY Zenon
<1> DEFINE i == CHOOSE x \in op.todo : TRUE
<1>1. op.pc = "forget" /\ op.req.kind = "Destroy" /\ UNCHANGED <<rows, crashes, faults>>
  BY Zenon DEF forget_snapshots, Running, journal, bounds
<1>2. CASE UNCHANGED objects /\ op'.pc \in {"final", "forget"}
  BY <1>1, <1>2, QuietMatched, Zenon DEF Matched, Undisturbed, Adding, Removing
<1>3. CASE /\ objects' = Drop(objects, i)
           /\ op' = [req |-> op.req, pc |-> "forget_row", lands |-> op.lands, ok |-> op.ok,
                     id |-> i, todo |-> op.todo \ {i}]
  <2>1. DOMAIN objects' = DOMAIN objects \ {i}
    BY <1>3, Zenon DEF Drop
  <2>2. op'.req = op.req /\ op'.pc = "forget_row" /\ op'.id = i
    BY <1>3, Zenon
  <2> QED
    BY <1>1, <2>1, <2>2, Zenon DEF Matched, Undisturbed, Explicit, Adding, Removing
<1>4. CASE op.todo = {}
  <2>1. UNCHANGED objects /\ op'.pc = "final"
    BY <1>4, OpEffect, Zenon DEF Inv, forget_snapshots
  <2> QED
    BY <1>2, <2>1, Zenon
<1>5. CASE op.todo # {}
  <2>1. \/ /\ objects' = Drop(objects, i)
           /\ op' = [op EXCEPT !.pc = "forget_row", !.id = i, !.todo = op.todo \ {i}]
        \/ UNCHANGED objects /\ op' = [op EXCEPT !.todo = op.todo \ {i}]
    BY <1>5, Zenon DEF forget_snapshots
  <2>2. \/ /\ objects' = Drop(objects, i)
           /\ op' = [req |-> op.req, pc |-> "forget_row", lands |-> op.lands, ok |-> op.ok,
                     id |-> i, todo |-> op.todo \ {i}]
        \/ UNCHANGED objects /\ op'.pc = "forget"
    BY <1>1, <2>1, Zenon DEF Inv, Shape
  <2> QED
    BY <1>2, <1>3, <2>2, Zenon
<1> QED
  BY <1>4, <1>5, Zenon

\* Every step keeps the match; a crash ends what is claimed of it.
LEMMA StepMatched == Inv /\ Matched /\ [Next]_vars => Matched'
<1> SUFFICES ASSUME Inv, Matched, [Next]_vars PROVE Matched'
  BY Zenon
<1>1. CASE UNCHANGED vars
  BY <1>1, Zenon DEF vars, Matched, Undisturbed, Explicit, Adding, Removing
<1>2. ASSUME NEW r \in Requests, submit(r) PROVE Matched'
  BY <1>2, Zenon DEF submit, journal, Matched, Undisturbed, Explicit, Adding, Removing
<1>3. CASE CrashRecover
  BY <1>3 DEF CrashRecover, Matched, Undisturbed
<1>4. CASE Execute
  BY Zenon, <1>4, Match_Start, Match_Stop, Match_Pause, Match_record_pause, Match_Resume,
     Match_CreateSnapshot, Match_record_snapshot, Match_compensate, Match_DeleteSnapshot,
     Match_journal_delete, Match_Destroy, Match_forget_snapshots, Match_forget_row,
     Match_SubstrateFails, Match_finalize DEF Execute
<1> QED
  BY <1>1, <1>2, <1>3, <1>4, Match_submit_atomically, Zenon DEF Next

\* Between operations the journal and the substrate agree on the explicit snapshots, unless a
\* crash, a failed journal write or a capture nobody could confirm came in between
\* (record_snapshot, CreateSnapshot, forget_snapshots).
THEOREM JournalAlwaysMatches == Spec => []JournalMatches
<1>1. Matched => JournalMatches
  BY DEF Matched, JournalMatches, Undisturbed, Explicit, Adding, Removing, NoOp
<1>2. Spec => []Matched
  BY InitMatched, StepMatched, AlwaysInv, PTL DEF Spec
<1> QED
  BY <1>1, <1>2, PTL

-----------------------------------------------------------------------------
(* Names                                                                   *)

(* A create that is submitted, or runs and has not journaled yet, wants its name. *)
Wants(x) ==
    \/ sub.kind = "CreateSnapshot" /\ sub.name = x
    \/ op.req.kind = "CreateSnapshot" /\ op.pc \in {"run", "record"} /\ op.req.name = x

(* Without a failed write: only a create has a name.  A row whose name somebody wants still *)
(* has its object, which refuses the name; for what removes an object runs alone, and a create *)
(* that was let in before the row was there is the next operation.  At the insert the name is *)
(* free. *)
Names1 == sub.name # NoName => sub.kind = "CreateSnapshot"
Names2 == op.req.name # NoName => op.req.kind = "CreateSnapshot"
Guarded ==
    \A j \in DOMAIN rows : rows[j].name # NoName /\ Wants(rows[j].name)
        => j \in DOMAIN objects /\ objects[j].name = rows[j].name
LetIn ==
    sub.kind = "CreateSnapshot" /\ sub.name # NoName /\ snapshot_named(sub.name)
        => op.req.kind \in {"none", "CreateSnapshot"}
Free ==
    Adding => /\ objects[op.id].name = op.req.name
              /\ op.req.name # NoName => ~snapshot_named(op.req.name)
Distinct ==
    \A i, j \in DOMAIN rows : i # j /\ rows[i].name # NoName => rows[i].name # rows[j].name

NameInv ==
    faults = 0 => /\ op.pc # "compensate"
                  /\ Names1 /\ Names2 /\ Guarded /\ LetIn /\ Free /\ Distinct

\* In the initial state nobody has a name.
LEMMA InitNames == Init => NameInv
BY DEF Init, NameInv, Names1, Names2, Guarded, LetIn, Free, Distinct, Adding, NoOp, NoRequest

\* A step that changes neither journal nor substrate nor submission, and leaves the operation
\* with its request, past the capture.
LEMMA QuietNames ==
    ASSUME NameInv, UNCHANGED <<rows, objects, sub>>, faults' = 0 => faults = 0,
           faults' = 0 => op'.pc \notin {"compensate", "run", "record"} \/ op'.req.kind # "CreateSnapshot",
           op'.pc # "compensate",
           op'.req = op.req \/ op'.req = NoRequest
    PROVE  NameInv'
<1> SUFFICES ASSUME faults' = 0 PROVE NameInv'
  BY Zenon DEF NameInv
<1>1. Names1' /\ Names2'
  BY DEF NameInv, Names1, Names2, NoRequest
<1>2. \A x : Wants(x)' => Wants(x)
  BY Zenon DEF Wants
<1>3. Guarded'
  BY <1>2, Zenon DEF NameInv, Guarded
<1>4. LetIn'
  BY DEF NameInv, LetIn, snapshot_named, NoRequest
<1>5. Free' /\ Distinct'
  BY Zenon DEF NameInv, Free, Distinct, Adding
<1> QED
  BY <1>1, <1>3, <1>4, <1>5, Zenon DEF NameInv

\* Start keeps the names apart.
LEMMA Name_Start == Inv /\ Matched /\ NameInv /\ Start => NameInv'
<1> SUFFICES ASSUME Inv, Matched, NameInv, Start PROVE NameInv'
  BY Zenon
<1>1. op'.pc = "final" /\ op'.req = op.req
  BY OpEffect, Zenon DEF Inv, Start
<1> QED
  BY <1>1, QuietNames, Zenon DEF Start, Running, journal, bounds

\* Stop keeps the names apart.
LEMMA Name_Stop == Inv /\ Matched /\ NameInv /\ Stop => NameInv'
<1> SUFFICES ASSUME Inv, Matched, NameInv, Stop PROVE NameInv'
  BY Zenon
<1>1. op'.pc = "final" /\ op'.req = op.req
  BY OpEffect, Zenon DEF Inv, Stop
<1> QED
  BY <1>1, QuietNames, Zenon DEF Stop, Running, journal, bounds

\* SubstrateFails keeps the names apart.
LEMMA Name_SubstrateFails == Inv /\ Matched /\ NameInv /\ SubstrateFails => NameInv'
<1> SUFFICES ASSUME Inv, Matched, NameInv, SubstrateFails PROVE NameInv'
  BY Zenon
<1>1. op'.pc = "final" /\ op'.req = op.req
  BY OpEffect, Zenon DEF Inv, SubstrateFails
<1> QED
  BY <1>1, QuietNames, Zenon DEF SubstrateFails, journal, bounds

\* Resume keeps the names apart.
LEMMA Name_Resume == Inv /\ Matched /\ NameInv /\ Resume => NameInv'
<1> SUFFICES ASSUME Inv, Matched, NameInv, Resume PROVE NameInv'
  BY Zenon
<1>1. op'.pc = "final" /\ op'.req = op.req
  <2>1. Done \/ Failed
    BY Zenon DEF Resume, resolve_restore, decide
  <2> QED
    BY <2>1, OpEffect, Zenon DEF Inv
<1> QED
  BY <1>1, QuietNames, Zenon DEF Resume, journal, bounds

\* finalize keeps the names apart.
LEMMA Name_finalize == Inv /\ Matched /\ NameInv /\ finalize => NameInv'
<1> SUFFICES ASSUME Inv, Matched, NameInv, finalize PROVE NameInv'
  BY Zenon
<1>1. op'.pc = "none" /\ op'.req = NoRequest
  BY Zenon DEF finalize, NoOp
<1> QED
  BY <1>1, QuietNames, Zenon DEF finalize, journal, bounds

\* Destroy keeps the names apart.
LEMMA Name_Destroy == Inv /\ Matched /\ NameInv /\ Destroy => NameInv'
<1> SUFFICES ASSUME Inv, Matched, NameInv, Destroy PROVE NameInv'
  BY Zenon
<1>1. op'.pc \in {"final", "forget"} /\ op'.req = op.req
  <2>1. CASE forgets
    BY <2>1, Zenon DEF Destroy, Inv, Shape
  <2>2. CASE ~forgets
    BY <2>2, OpEffect, Zenon DEF Destroy, Inv
  <2> QED
    BY <2>1, <2>2, Zenon
<1> QED
  BY <1>1, QuietNames, Zenon DEF Destroy, journal, bounds

\* Pause keeps the names apart.
LEMMA Name_Pause == Inv /\ Matched /\ NameInv /\ Pause => NameInv'
<1> SUFFICES ASSUME Inv, Matched, NameInv, Pause PROVE NameInv'
  BY Zenon
<1>1. op.req.kind = "Pause" /\ op'.req = op.req /\ op'.pc # "compensate"
  <2>1. Failed \/ Goto("record", n') \/ Goto("record_disk", n')
    BY Zenon DEF Pause, Unconfirmed
  <2>2. Failed => op'.req = op.req /\ op'.pc # "compensate"
    BY OpEffect, Zenon DEF Inv
  <2>3. Goto("record", n') \/ Goto("record_disk", n') => op'.req = op.req /\ op'.pc # "compensate"
    BY OpEffect DEF Inv
  <2> QED
    BY <2>1, <2>2, <2>3, Zenon DEF Pause, Running
<1>2. UNCHANGED <<rows, objects, sub>> /\ (faults' = faults \/ faults' = faults + 1)
  BY Zenon DEF Pause, journal, NoFault, Unconfirmed, Fault
<1>3. faults' = 0 => faults = 0
  BY <1>2 DEF Matched
<1> QED
  BY <1>1, <1>2, <1>3, QuietNames, Zenon

\* compensate keeps the names apart.
LEMMA Name_compensate == Inv /\ Matched /\ NameInv /\ compensate => NameInv'
<1> SUFFICES ASSUME Inv, Matched, NameInv, compensate PROVE NameInv'
  BY Zenon
<1>1. op.pc = "compensate" /\ UNCHANGED faults
  BY Zenon DEF compensate, Running, bounds
<1> QED
  BY <1>1, Zenon DEF NameInv

\* CrashRecover keeps the names apart.
LEMMA Name_CrashRecover == Inv /\ Matched /\ NameInv /\ CrashRecover => NameInv'
<1> SUFFICES ASSUME Inv, Matched, NameInv, CrashRecover PROVE NameInv'
  BY Zenon
<1>1. sub' = NoRequest /\ op' = NoOp /\ UNCHANGED <<rows, objects, faults>>
  BY Zenon DEF CrashRecover, journal
<1>2. op'.pc = "none" /\ op'.req = NoRequest
  BY <1>1, Zenon DEF NoOp
<1> QED
  BY <1>1, <1>2 DEF NameInv, Names1, Names2, Guarded, LetIn, Free, Distinct, Wants, Adding,
     NoRequest

\* submit_atomically keeps the names apart.
LEMMA Name_submit_atomically == Inv /\ Matched /\ NameInv /\ submit_atomically => NameInv'
<1> SUFFICES ASSUME Inv, Matched, NameInv, submit_atomically PROVE NameInv'
  BY Zenon
<1>1. UNCHANGED <<rows, objects, faults>> /\ sub' = NoRequest
  BY Zenon DEF submit_atomically, journal, bounds
<1>2. UNCHANGED op \/ (op'.pc = "run" /\ op'.req = sub)
  BY Zenon DEF submit_atomically, NoOp
<1> SUFFICES ASSUME faults' = 0 PROVE NameInv'
  BY Zenon DEF NameInv
<1>3. \A x : Wants(x)' => Wants(x)
  BY <1>1, <1>2, Zenon DEF Wants, NoRequest
<1>4. Names1' /\ Names2' /\ LetIn'
  BY <1>1, <1>2, Zenon DEF NameInv, Names1, Names2, LetIn, NoRequest
<1>5. Guarded' /\ Distinct'
  BY <1>1, <1>3, Zenon DEF NameInv, Guarded, Distinct
<1>6. Free'
  BY <1>1, <1>2, Zenon DEF NameInv, Free, Adding, snapshot_named
<1> QED
  BY <1>1, <1>2, <1>4, <1>5, <1>6, Zenon DEF NameInv

\* CreateSnapshot keeps the names apart.
LEMMA Name_CreateSnapshot == Inv /\ Matched /\ NameInv /\ CreateSnapshot => NameInv'
<1> SUFFICES ASSUME Inv, Matched, NameInv, CreateSnapshot PROVE NameInv'
  BY Zenon
<1>1. op.pc = "run" /\ op.req.kind = "CreateSnapshot" /\ UNCHANGED <<rows, sub>> /\ n' = n + 1
      /\ (op.req.name # NoName => \A i \in DOMAIN objects : objects[i].name # op.req.name)
  BY Zenon DEF CreateSnapshot, Running, journal
<1>2. /\ \A j \in DOMAIN objects : j \in DOMAIN objects' /\ objects'[j] = objects[j]
      /\ objects'[n + 1].name = op.req.name
  <2>1. n + 1 \notin DOMAIN objects
    BY DEF Inv, Numbered
  <2>2. objects' = Put(objects, n + 1,
            [image |-> IF sandbox.mode = "standby" THEN sandbox.image ELSE n + 1,
             name |-> op.req.name])
    BY Zenon DEF CreateSnapshot
  <2> QED
    BY <2>1, <2>2, Zenon DEF Put
<1>3. CASE Goto("record", n') /\ NoFault
  <2> SUFFICES ASSUME faults' = 0 PROVE NameInv'
    BY Zenon DEF NameInv
  <2>1. op'.req = op.req /\ op'.pc = "record" /\ op'.id = n + 1 /\ faults = 0
    BY <1>1, <1>3, OpEffect, Zenon DEF Inv, NoFault
  <2>2. op.req.name # NoName => ~snapshot_named(op.req.name)
    BY <1>1, <2>1, Zenon DEF NameInv, Guarded, Wants, snapshot_named
  <2>3. \A x : Wants(x)' => Wants(x)
    BY <1>1, <2>1, Zenon DEF Wants
  <2>4. Guarded'
    BY <1>1, <1>2, <2>1, <2>3, Zenon DEF NameInv, Guarded
  <2>5. Free'
    BY <1>1, <1>2, <2>1, <2>2, Zenon DEF Free, Adding, snapshot_named
  <2>6. Names1' /\ Names2' /\ LetIn' /\ Distinct'
    BY <1>1, <2>1, Zenon DEF NameInv, Names1, Names2, LetIn, Distinct, snapshot_named
  <2> QED
    BY <2>1, <2>4, <2>5, <2>6, Zenon DEF NameInv
<1>4. CASE Unconfirmed
  BY <1>4 DEF Unconfirmed, Fault, Matched, NameInv
<1> QED
  BY <1>3, <1>4, Zenon DEF CreateSnapshot

\* record_snapshot keeps the names apart.
LEMMA Name_record_snapshot == Inv /\ Matched /\ NameInv /\ record_snapshot => NameInv'
<1> SUFFICES ASSUME Inv, Matched, NameInv, record_snapshot PROVE NameInv'
  BY Zenon
<1>1. Adding /\ Creating /\ UNCHANGED <<objects, sub>>
  BY Zenon DEF record_snapshot, Running, Adding, Creating
<1>2. n \notin DOMAIN rows /\ n \in DOMAIN objects /\ op.id = n
  BY <1>1, Zenon DEF Inv, Newest
<1>3. CASE insert_snapshot(op.id, RowOf(TRUE, objects[op.id].image)) /\ NoFault /\ Done
  <2> SUFFICES ASSUME faults' = 0 PROVE NameInv'
    BY Zenon DEF NameInv
  <2>1. op'.pc = "final" /\ op'.req = op.req /\ faults = 0
    BY <1>3, OpEffect, Zenon DEF Inv, NoFault
  <2>2. /\ DOMAIN rows' = DOMAIN rows \cup {n} /\ rows'[n].name = op.req.name
        /\ \A j \in DOMAIN rows : rows'[j] = rows[j]
    <3>1. RowOf(TRUE, objects[op.id].image).name = op.req.name
      BY Zenon DEF RowOf
    <3> QED
      BY <1>2, <1>3, <3>1, Zenon DEF insert_snapshot, Put
  <2>3. objects[n].name = op.req.name
        /\ (op.req.name # NoName => \A j \in DOMAIN rows : rows[j].name # op.req.name)
    BY <1>1, <1>2, <2>1, Zenon DEF NameInv, Free, snapshot_named
  <2>4. \A x : Wants(x)' => Wants(x)
    BY <1>1, <2>1, Zenon DEF Wants
  <2>5. Guarded'
    BY <1>1, <1>2, <2>1, <2>2, <2>3, <2>4, Zenon DEF NameInv, Guarded
  <2>6. Distinct'
    BY <1>2, <2>1, <2>2, <2>3 DEF NameInv, Distinct
  <2>7. Names1' /\ Names2' /\ LetIn' /\ Free'
    BY <1>1, <2>1, Zenon DEF NameInv, Names1, Names2, LetIn, Free, Adding
  <2> QED
    BY <2>1, <2>5, <2>6, <2>7, Zenon DEF NameInv
<1>4. CASE Fault
  BY <1>4 DEF Fault, Matched, NameInv
<1> QED
  BY <1>3, <1>4, Zenon DEF record_snapshot

\* record_pause keeps the names apart.
LEMMA Name_record_pause == Inv /\ Matched /\ NameInv /\ record_pause => NameInv'
<1> SUFFICES ASSUME Inv, Matched, NameInv, record_pause PROVE NameInv'
  BY Zenon
<1>1. Pausing /\ UNCHANGED <<objects, sub>> /\ op'.pc = "final" /\ op'.req = op.req
  BY OpEffect, Zenon DEF Inv, record_pause, Running, Pausing
<1>2. n \notin DOMAIN rows /\ op.id = n
  BY <1>1, Zenon DEF Inv, Newest
<1> SUFFICES ASSUME faults' = 0 PROVE NameInv'
  BY Zenon DEF NameInv
<1>3. faults = 0 /\ insert_snapshot(n, RowOf(op.pc = "record", n))
  BY <1>2 DEF record_pause, Fault, NoFault, Matched
<1>4. op.req.name = NoName
  BY <1>1, <1>3, Zenon DEF NameInv, Names2, Pausing
<1>5. /\ DOMAIN rows' = DOMAIN rows \cup {n} /\ rows'[n].name = NoName
      /\ \A j \in DOMAIN rows : rows'[j] = rows[j]
  <2>1. RowOf(op.pc = "record", n).name = NoName
    BY <1>4, Zenon DEF RowOf
  <2> QED
    BY <1>2, <1>3, <2>1, Zenon DEF insert_snapshot, Put
<1>6. \A x : Wants(x)' => Wants(x)
  BY <1>1, Zenon DEF Wants
<1>7. Guarded' /\ Distinct'
  BY <1>1, <1>2, <1>3, <1>5, <1>6 DEF NameInv, Guarded, Distinct
<1>8. LetIn'
  BY <1>1, <1>2, <1>3, <1>5, Zenon DEF NameInv, LetIn, snapshot_named
<1>9. Names1' /\ Names2' /\ Free'
  BY <1>1, <1>3, Zenon DEF NameInv, Names1, Names2, Free, Adding
<1> QED
  BY <1>1, <1>7, <1>8, <1>9, Zenon DEF NameInv

\* What removes an object or a row, run by an operation that is no create, keeps the names apart:
\* nobody waits for a name some row has.
LEMMA RemovingNames ==
    ASSUME NameInv, sub' = sub, op'.req = op.req, op'.pc # "compensate",
           faults' = 0 => faults = 0,
           op.req.kind \in {"DeleteSnapshot", "Destroy"},
           DOMAIN rows' \subseteq DOMAIN rows, \A j \in DOMAIN rows' : rows'[j] = rows[j]
    PROVE  NameInv'
<1> SUFFICES ASSUME faults' = 0 PROVE NameInv'
  BY Zenon DEF NameInv
<1>1. \A x : Wants(x)' => sub.kind = "CreateSnapshot" /\ sub.name = x
  BY Zenon DEF Wants
<1>2. sub.kind = "CreateSnapshot" /\ sub.name # NoName => ~snapshot_named(sub.name)
  BY Zenon DEF NameInv, LetIn
<1>3. Guarded' /\ LetIn'
  BY <1>1, <1>2, Zenon DEF Guarded, LetIn, snapshot_named
<1>4. Distinct'
  BY Zenon DEF NameInv, Distinct
<1>5. Names1' /\ Names2' /\ Free'
  BY Zenon DEF NameInv, Names1, Names2, Free, Adding
<1> QED
  BY <1>3, <1>4, <1>5, Zenon DEF NameInv

\* DeleteSnapshot keeps the names apart.
LEMMA Name_DeleteSnapshot == Inv /\ Matched /\ NameInv /\ DeleteSnapshot => NameInv'
<1> SUFFICES ASSUME Inv, Matched, NameInv, DeleteSnapshot PROVE NameInv'
  BY Zenon
<1>1. op.req.kind = "DeleteSnapshot" /\ op'.req = op.req /\ op'.pc = "record"
  BY OpEffect, Zenon DEF Inv, DeleteSnapshot, Running
<1> QED
  BY <1>1, RemovingNames, Zenon DEF DeleteSnapshot, journal, bounds

\* journal_delete keeps the names apart.
LEMMA Name_journal_delete == Inv /\ Matched /\ NameInv /\ journal_delete => NameInv'
<1> SUFFICES ASSUME Inv, Matched, NameInv, journal_delete PROVE NameInv'
  BY Zenon
<1>1. op.req.kind = "DeleteSnapshot" /\ op'.req = op.req /\ op'.pc = "final"
  BY OpEffect, Zenon DEF Inv, journal_delete, Running
<1>2. sub' = sub /\ (faults' = 0 => faults = 0)
  BY DEF journal_delete, Fault, NoFault, Matched
<1>3. DOMAIN rows' \subseteq DOMAIN rows /\ \A j \in DOMAIN rows' : rows'[j] = rows[j]
  BY Zenon DEF journal_delete, journal, delete_snapshot_row, Drop
<1> QED
  BY <1>1, <1>2, <1>3, RemovingNames, Zenon

\* forget_row keeps the names apart.
LEMMA Name_forget_row == Inv /\ Matched /\ NameInv /\ forget_row => NameInv'
<1> SUFFICES ASSUME Inv, Matched, NameInv, forget_row PROVE NameInv'
  BY Zenon
<1>1. op.req.kind = "Destroy" /\ op'.req = op.req /\ op'.pc = "forget"
  BY OpEffect, Zenon DEF Inv, forget_row, Running
<1>2. sub' = sub /\ (faults' = 0 => faults = 0)
  BY DEF forget_row, Fault, NoFault, Matched
<1>3. DOMAIN rows' \subseteq DOMAIN rows /\ \A j \in DOMAIN rows' : rows'[j] = rows[j]
  BY Zenon DEF forget_row, journal, delete_snapshot_row, Drop
<1> QED
  BY <1>1, <1>2, <1>3, RemovingNames, Zenon

\* forget_snapshots keeps the names apart.
LEMMA Name_forget_snapshots == Inv /\ Matched /\ NameInv /\ forget_snapshots => NameInv'
<1> SUFFICES ASSUME Inv, Matched, NameInv, forget_snapshots PROVE NameInv'
  BY Zenon
<1>1. op.req.kind = "Destroy" /\ op'.req = op.req /\ op'.pc # "compensate"
  <2>1. op.req.kind = "Destroy" /\ op.pc = "forget" /\ Shape
    BY Zenon DEF Inv, forget_snapshots, Running
  <2>2. CASE op.todo = {}
    BY <2>1, <2>2, OpEffect, Zenon DEF forget_snapshots
  <2>3. CASE op.todo # {}
    BY <2>1, <2>3, Zenon DEF forget_snapshots, Shape
  <2> QED
    BY <2>1, <2>2, <2>3, Zenon
<1> QED
  BY <1>1, RemovingNames, Zenon DEF forget_snapshots, journal, bounds

\* A submission that passes preflight keeps the names apart: a create's name is not in the journal.
LEMMA Name_submit ==
    ASSUME NameInv, NEW r \in Requests, submit(r)
    PROVE  NameInv'
<1>1. /\ UNCHANGED <<rows, objects, op, faults>> /\ sub' = r
      /\ r.kind = "CreateSnapshot" /\ r.name # NoName => ~snapshot_named(r.name)
      /\ r.name # NoName => r.kind = "CreateSnapshot"
  BY Zenon DEF submit, preflight, journal, Requests
<1> SUFFICES ASSUME faults' = 0 PROVE NameInv'
  BY Zenon DEF NameInv
<1>2. Guarded'
  <2> SUFFICES ASSUME NEW j \in DOMAIN rows, rows[j].name # NoName, Wants(rows[j].name)'
               PROVE  j \in DOMAIN objects /\ objects[j].name = rows[j].name
    BY <1>1, Zenon DEF Guarded
  <2>1. ~(r.kind = "CreateSnapshot" /\ r.name = rows[j].name)
    BY <1>1, Zenon DEF snapshot_named
  <2>2. Wants(rows[j].name)
    BY <1>1, <2>1, Zenon DEF Wants
  <2> QED
    BY <1>1, <2>2, Zenon DEF NameInv, Guarded
<1>3. Names1' /\ Names2' /\ LetIn' /\ Free' /\ Distinct'
  BY <1>1, Zenon DEF NameInv, Names1, Names2, LetIn, Free, Adding, Distinct, snapshot_named
<1> QED
  BY <1>1, <1>2, <1>3, Zenon DEF NameInv

\* Every step keeps the names apart.
LEMMA StepNames == Inv /\ Matched /\ NameInv /\ [Next]_vars => NameInv'
<1> SUFFICES ASSUME Inv, Matched, NameInv, [Next]_vars PROVE NameInv'
  BY Zenon
<1>1. ASSUME NEW r \in Requests, submit(r) PROVE NameInv'
  BY <1>1, Name_submit, Zenon
<1>2. CASE submit_atomically
  BY <1>2, Name_submit_atomically, Zenon
<1>3. CASE Execute
  BY Zenon, <1>3, Name_Start, Name_Stop, Name_Pause, Name_record_pause, Name_Resume,
     Name_CreateSnapshot,
     Name_record_snapshot, Name_compensate, Name_DeleteSnapshot, Name_journal_delete, Name_Destroy,
     Name_forget_snapshots, Name_forget_row, Name_SubstrateFails, Name_finalize DEF Execute
<1>4. CASE CrashRecover
  BY <1>4, Name_CrashRecover, Zenon
<1>5. CASE UNCHANGED vars
  BY <1>5, Zenon DEF vars, NameInv, Names1, Names2, Guarded, LetIn, Free, Distinct, Wants,
     Adding, snapshot_named
<1> QED
  BY <1>1, <1>2, <1>3, <1>4, <1>5, Zenon DEF Next

(* Without a failed journal write no two snapshots of the instance carry one name, though the *)
(* name is looked up before the submission is accepted (preflight, insert_snapshot).           *)
THEOREM NamesAreUnique == Spec => []NamesUnique
<1>1. NameInv => NamesUnique
  BY Zenon DEF NameInv, Distinct, NamesUnique
<1> QED
  BY <1>1, InitInv, StepInv, InitMatched, StepMatched, InitNames, StepNames, PTL DEF Spec
=============================================================================
