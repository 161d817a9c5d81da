------------------------------ MODULE Payload ------------------------------
(***************************************************************************)
(* payload.rs: a PayloadBuilder that lays out bytes and objects, and the   *)
(* PayloadReader that walks the result with two cursors - one over the     *)
(* data, one over the object offsets - until it is dropped.                *)
(*                                                                         *)
(* Positions and lengths are in units of four bytes, the size of an object *)
(* header: objects are aligned to two units and are 6, 8 or 10 units long. *)
(* What the bytes say, and which process a reference names, is left out.   *)
(*                                                                         *)
(* Two handlers that echo what they read, that of examples/bench.rs and    *)
(* that of examples/self_transaction.rs, walk the reader each in its way.  *)
(***************************************************************************)
EXTENDS Integers, Sequences, FiniteSets, SequencesExt

CONSTANTS
  ObjectKinds,   \* the kinds of object the builder is used with
  MaxPushes,     \* bound: pushes into one payload
  MaxBytes       \* bound: length of one push_bytes

\* size_of the object structs: FlatBinderObject, BinderFdObject,
\* BinderFdArrayObject, BinderBufferObject.  gone is a binder object of this
\* process that is no longer registered when the reader comes to it.
ObjectSize == [binder |-> 6, gone |-> 6, fd |-> 6, fd_array |-> 8, buffer |-> 10]

ASSUME KindsAssumption == ObjectKinds \subseteq DOMAIN ObjectSize
ASSUME PushAssumption == MaxPushes \in Nat /\ MaxBytes \in Nat

VARIABLES
  phase,              \* building, reading, echoing, echoed, scanning, scanned,
                      \* dropping, freed, panicked
  layout,             \* what was pushed, and where it lies in the data
  data_len,           \* length of the data
  objects,            \* what the offsets list: the objects, in the order of pushing
  next_offset_index,  \* objects already passed
  next_data_index,    \* the byte cursor
  taken,              \* the objects handed out or drained, in order
  lost,               \* the objects drained without a value (unknown object)
  followed,           \* pushes mirrored by the reads so far; -1: not mirrored
  echo                \* the reply of a handler that echoes: its objects and length

reader_vars == <<next_offset_index, next_data_index, taken, lost, followed>>
build_vars == <<layout, data_len, objects>>
vars == <<phase, build_vars, reader_vars, echo>>
-----------------------------------------------------------------------------
(* Layout.                                                                 *)

\* align: pad with zeros to the next multiple of two units.
Aligned(n) == n + (n % 2)

\* An object of kind k that is pushed behind n units of data.
Placed(k, n) == [what |-> k, at |-> Aligned(n), len |-> ObjectSize[k]]

Init ==
  /\ phase = "building"
  /\ layout = <<>>
  /\ data_len = 0
  /\ objects = <<>>
  /\ next_offset_index = 0
  /\ next_data_index = 0
  /\ taken = <<>>
  /\ lost = {}
  /\ followed = 0
  /\ echo = [objects |-> <<>>, len |-> 0]

\* push_bytes (and align, which pushes zeros).
PushBytes(n) ==
  /\ phase = "building"
  /\ Len(layout) < MaxPushes
  /\ layout' = Append(layout, [what |-> "bytes", at |-> data_len, len |-> n])
  /\ data_len' = data_len + n
  /\ UNCHANGED <<phase, objects, reader_vars, echo>>

\* Appends an object, whose offset is noted.
PushStruct(e) ==
  /\ phase = "building"
  /\ Len(layout) < MaxPushes
  /\ layout' = Append(layout, e)
  /\ objects' = Append(objects, e)
  /\ data_len' = Aligned(data_len) + e.len
  /\ UNCHANGED <<phase, reader_vars, echo>>

\* Faulty: the offset is taken before the padding.
PushObjectEarlyOffset(k) == PushStruct([Placed(k, data_len) EXCEPT !.at = data_len])

\* push_binder_ref, push_fd, push_owned_fd, push_buffer, push_child_buffer,
\* push_fd_array: align, note the offset, append the struct.
PushObject(k) == PushStruct(Placed(k, data_len))

Drainable == \A i \in 1..Len(objects) : objects[i].what \notin {"buffer", "fd_array"}

\* The payload is sent to another process: from_kernel_raw.
Send ==
  /\ phase = "building"
  /\ phase' = "reading"
  /\ UNCHANGED <<build_vars, reader_vars, echo>>

\* Or within the process: from_builder copies data and offsets, duplicates the
\* descriptors, and meets todo!() at a buffer or an fd array.
SendLocally ==
  /\ phase = "building"
  /\ phase' = IF Drainable THEN "reading" ELSE "panicked"
  /\ UNCHANGED <<build_vars, reader_vars, echo>>
-----------------------------------------------------------------------------
(* The reader.                                                             *)

OffsetsPast(p) == {q \in {objects[i].at : i \in 1..Len(objects)} : q > p}

\* bytes_until_next_obj: up to the first offset strictly past the cursor.
BytesUntilNextObj ==
  IF OffsetsPast(next_data_index) = {}
  THEN data_len - next_data_index
  ELSE Min(OffsetsPast(next_data_index)) - next_data_index

\* read_bytes succeeds: not past the next object's offset (ReadingIntoObject),
\* not past the data (OutOfBounds).
BytesReadable(n) ==
  /\ \A q \in OffsetsPast(next_data_index) : next_data_index + n <= q
  /\ next_data_index + n <= data_len

\* next_object_type.
NextObject ==
  IF next_offset_index < Len(objects) THEN objects[next_offset_index + 1].what ELSE "none"

\* The next push to mirror, if the reads have mirrored every push before it.
NextPush ==
  IF followed \in 0..Len(layout) - 1 THEN layout[followed + 1]
  ELSE [what |-> "none", at |-> 0, len |-> 0]

Follow(mirrors) == followed' = IF mirrors THEN followed + 1 ELSE -1

ReadBytes(n) ==
  /\ phase = "reading"
  /\ BytesReadable(n)
  /\ next_data_index' = next_data_index + n
  /\ Follow(NextPush.what = "bytes" /\ NextPush.len = n)
  /\ UNCHANGED <<phase, build_vars, next_offset_index, taken, lost, echo>>

\* Faulty: the byte cursor stays where it was.
TakeObjectInPlace ==
  /\ taken' = Append(taken, next_offset_index + 1)
  /\ next_offset_index' = next_offset_index + 1
  /\ UNCHANGED <<next_data_index, lost>>

\* What read_binder_ref and read_fd do on success: both cursors move past the
\* object, wherever the byte cursor was.
TakeObject ==
  LET e == objects[next_offset_index + 1] IN
  /\ taken' = Append(taken, next_offset_index + 1)
  /\ next_offset_index' = next_offset_index + 1
  /\ next_data_index' = e.at + e.len
  /\ UNCHANGED lost

\* read_binder_ref, read_fd.  Of a wrong kind or an object that is gone they
\* return an error and leave the reader as it was.
ReadObject ==
  /\ phase = "reading"
  /\ NextObject \in {"binder", "fd"}
  /\ TakeObject
  /\ Follow(NextPush.what = NextObject)
  /\ UNCHANGED <<phase, build_vars, echo>>

StartDrop ==
  /\ phase \in {"reading", "echoed", "scanned"}
  /\ phase' = "dropping"
  /\ UNCHANGED <<build_vars, reader_vars, echo>>

\* Faulty: the index is advanced on success as well, on top of the read.
DrainObjectTwice ==
  /\ phase = "dropping"
  /\ NextObject \in {"binder", "fd"}
  /\ taken' = Append(taken, next_offset_index + 1)
  /\ next_offset_index' = next_offset_index + 2
  /\ UNCHANGED <<phase, build_vars, next_data_index, lost, followed, echo>>

\* Drop drains what the application did not read.
DrainObject ==
  /\ phase = "dropping"
  /\ NextObject \in {"binder", "fd"}
  /\ TakeObject
  /\ UNCHANGED <<phase, build_vars, followed, echo>>

\* Faulty: the loop tries the unknown object again.
DrainUnknownAgain ==
  /\ phase = "dropping"
  /\ NextObject = "gone"
  /\ UNCHANGED vars

\* A binder object that is no longer registered is passed over.
DrainUnknown ==
  /\ phase = "dropping"
  /\ NextObject = "gone"
  /\ lost' = lost \cup {next_offset_index + 1}
  /\ next_offset_index' = next_offset_index + 1
  /\ UNCHANGED <<phase, build_vars, next_data_index, taken, followed, echo>>

\* A buffer or an fd array only draws a warning: the loop stays on it.
DrainUnsupported ==
  /\ phase = "dropping"
  /\ NextObject \in {"buffer", "fd_array"}
  /\ UNCHANGED vars

\* No object is left: FREE_BUFFER.
Free ==
  /\ phase = "dropping"
  /\ NextObject = "none"
  /\ phase' = "freed"
  /\ UNCHANGED <<build_vars, reader_vars, echo>>
-----------------------------------------------------------------------------
(* Handlers that echo.                                                     *)

\* One more push into the reply.
EchoBytes(n) == echo' = [echo EXCEPT !.len = @ + n]
EchoObject(k) ==
  echo' = [objects |-> Append(echo.objects, Placed(k, echo.len)),
           len |-> Aligned(echo.len) + ObjectSize[k]]

\* A read of all the bytes up to the next object.
TakeBytes ==
  /\ next_data_index' = next_data_index + BytesUntilNextObj
  /\ UNCHANGED <<next_offset_index, taken, lost>>

\* Client::message of bench: a header, which counts references and descriptors,
\* the data, the references and then the descriptors.
IsMessage ==
  /\ Len(layout) >= 2
  /\ layout[1].what = "bytes" /\ layout[1].len = 1
  /\ layout[2].what = "bytes" /\ layout[2].len = 1
  /\ \E k \in 2..Len(layout), m \in 2..Len(layout) :
       \A i \in 3..Len(layout) :
         layout[i].what = IF i <= k THEN "bytes" ELSE IF i <= m THEN "binder" ELSE "fd"

\* header_counts, from the data in front of the objects: how many of a kind are
\* still to be echoed.
Due(k) ==
  LET count(objs) == Cardinality({i \in 1..Len(objs) : objs[i].what = k})
      block == IF echo.objects = <<>> THEN echo.len ELSE echo.objects[1].at
  IN  IF block < 2 THEN 0 ELSE count(objects) - count(echo.objects)

\* echo_into of bench: the data block first.
EchoBlock ==
  /\ phase = "reading" /\ followed = 0 /\ IsMessage
  /\ BytesReadable(BytesUntilNextObj)
  /\ phase' = "echoing"
  /\ TakeBytes /\ EchoBytes(BytesUntilNextObj)
  /\ UNCHANGED <<build_vars, followed>>

\* The walk of self_transaction: bytes if there are any before the next object,
\* else that object (whose unwrap panics if it is gone), else the end.
Walk(from, to) ==
  /\ phase = from
  /\ \/ /\ BytesUntilNextObj # 0 /\ BytesReadable(BytesUntilNextObj)
        /\ TakeBytes /\ EchoBytes(BytesUntilNextObj)
        /\ UNCHANGED phase
     \/ /\ BytesUntilNextObj = 0 /\ NextObject \in {"binder", "fd"}
        /\ TakeObject /\ EchoObject(NextObject)
        /\ UNCHANGED phase
     \/ /\ BytesUntilNextObj = 0 /\ NextObject \notin {"binder", "fd"}
        /\ phase' = IF NextObject = "gone" THEN "panicked" ELSE to
        /\ UNCHANGED <<next_offset_index, next_data_index, taken, lost, echo>>
  /\ UNCHANGED <<build_vars, followed>>

\* Faulty: bench walks like self_transaction.
EchoRestByWalk == Walk("echoing", "echoed")

\* Then the references and the descriptors, as many as the header says.
EchoRest ==
  /\ phase = "echoing"
  /\ LET k == IF Due("binder") > 0 THEN "binder" ELSE "fd" IN
     IF Due(k) > 0 /\ NextObject = k
     THEN TakeObject /\ EchoObject(k) /\ UNCHANGED phase
     ELSE /\ phase' = "echoed"
          /\ UNCHANGED <<next_offset_index, next_data_index, taken, lost, echo>>
  /\ UNCHANGED <<build_vars, followed>>

StartWalk ==
  /\ phase = "reading" /\ followed = 0
  /\ phase' = "scanning"
  /\ UNCHANGED <<build_vars, reader_vars, echo>>
WalkOn == Walk("scanning", "scanned")
-----------------------------------------------------------------------------
Drain == DrainObject \/ DrainUnknown \/ DrainUnsupported

Next ==
  \/ \E n \in 1..MaxBytes : PushBytes(n)
  \/ \E k \in ObjectKinds : PushObject(k)
  \/ Send \/ SendLocally
  \/ \E n \in (1..MaxBytes) \cup {BytesUntilNextObj} : ReadBytes(n)
  \/ ReadObject
  \/ EchoBlock \/ EchoRest \/ StartWalk \/ WalkOn
  \/ StartDrop
  \/ Drain
  \/ Free

Spec == Init /\ [][Next]_vars

\* A drop that has begun runs.
FairSpec == Spec /\ WF_vars(Drain \/ Free)
-----------------------------------------------------------------------------
(* Properties.                                                             *)

\* The shape of the state.
TypeOK ==
  /\ phase \in {"building", "reading", "echoing", "echoed", "scanning", "scanned",
               "dropping", "freed", "panicked"}
  /\ Len(layout) <= MaxPushes
  /\ data_len \in Nat
  /\ next_offset_index \in 0..Len(objects)
  /\ next_data_index \in 0..data_len
  /\ followed \in -1..Len(layout)

\* A reader that mirrors the pushes finds each of them where the builder put
\* it: bytes at the byte cursor and readable, an object next in line.
RoundTrip ==
  phase = "reading" =>
    CASE NextPush.what = "none" -> TRUE
      [] NextPush.what = "bytes" ->
           next_data_index = NextPush.at /\ BytesReadable(NextPush.len)
      [] OTHER ->
           NextObject = NextPush.what /\ objects[next_offset_index + 1] = NextPush

\* No object of the payload is in two places at once, in the data at hand or in
\* the list of offsets: objects are aligned, disjoint and inside the data.
ObjectsDisjoint ==
  \A i \in 1..Len(objects) :
    /\ objects[i].at % 2 = 0
    /\ objects[i].at + objects[i].len <=
         IF i < Len(objects) THEN objects[i + 1].at ELSE data_len

\* FREE_BUFFER is sent when every reference and descriptor in the payload was
\* handed out or drained, each once: nothing is leaked and no fd closed twice.
EachObjectOnce ==
  phase = "freed" =>
    /\ Range(taken) \cup lost = 1..Len(objects)
    /\ Len(taken) + Cardinality(lost) = Len(objects)

\* The echo of bench's service holds the same objects in the same places, and is
\* as long.  So does that of self_transaction's walk ("can't be used here, because
\* bytes_until_next_obj looks for an offset strictly past the cursor and so misses
\* an object that starts exactly where the cursor already is"), but only if there is
\* no object: behind a read of bytes the cursor is where the next object starts.
EchoFaithful ==
  phase = "echoed" \/ (phase = "scanned" /\ objects = <<>>) =>
    echo = [objects |-> objects, len |-> data_len]

\* PayloadReader::drop ("this is needed to not infinite loop when trying to
\* read a dead object"): the drop of a payload with any mix of references,
\* descriptors and dead objects ends.  One of a buffer or an fd array does not.
DropEnds ==
  phase = "dropping" /\ Drainable ~> phase = "freed"
=============================================================================
