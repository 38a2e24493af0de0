-------------------------------- MODULE Frame --------------------------------
(***************************************************************************)
(* The slots in the frame of a function, as the code generator places and  *)
(* copies them.  collectFrame: what asks for room gets it below what asked *)
(* before, the stack growing down from the frame pointer.                  *)
(* emitPhiCopyList: the phis of an edge, and the parameters of a call of   *)
(* the function itself, are copied one after the other.                    *)
(***************************************************************************)
EXTENDS Values, Integers, Sequences

AlignTo(n, align) == ((n + align - 1) \div align) * align

Claim(id, bytes, align) == [id |-> id, bytes |-> bytes, align |-> align]

\* Mutation: an object starts where the last slot ended.
AllocateUnaligned(depth, room) == depth + AlignTo(room.bytes, 4)

\* The depth, nextOffset_ without its sign, after another room.
Allocated(depth, room) == AlignTo(depth + AlignTo(room.bytes, room.align), room.align)

\* The depth of each room; none is at depth 0.
Depths(rooms) ==
  LET depth[k \in 0 .. Len(rooms)] ==
        IF k = 0 THEN 0 ELSE Allocated(depth[k - 1], rooms[k])
  IN  depth

Asking(rooms) == {rooms[k].id : k \in DOMAIN rooms}
CollectFrame(rooms) ==
  LET depth == Depths(rooms)
      RoomOf(id) == CHOOSE k \in DOMAIN rooms : rooms[k].id = id
  IN  [at |-> [id \in Asking(rooms) |-> -depth[RoomOf(id)]],
       size |-> AlignTo(depth[Len(rooms)] + 16, 16)]

----------------------------------------------------------------------------
(* Copies.                                                                 *)

Copy(target, source) == [target |-> target, source |-> source]

\* Mutation: a source that is also a target is copied all the same.
DirectAnyway(copies) == TRUE

\* canEmitDirectPhiCopies: no copy takes away what another one needs.
IsDirect(copies) ==
  \A j, k \in DOMAIN copies :
    copies[j].source = Var(copies[k].target) => copies[j].target = copies[k].target

\* emitPhiCopyList: each target is set, if that is no harm; else what the
\* sources hold is saved on the stack first and then moved.
CopySteps(copies) ==
  LET Each(does) == [k \in DOMAIN copies |-> [does |-> does, at |-> k, copy |-> copies[k]]]
  IN  IF IsDirect(copies) THEN Each("set") ELSE Each("save") \o Each("move")

==============================================================================
