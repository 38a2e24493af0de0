----------------------------- MODULE MemoryPasses -----------------------------
(***************************************************************************)
(* The passes of src/src/ir/ir.cpp about memory: promotion of stack slots  *)
(* to values, with and without phis; forwarding of stores to loads within  *)
(* and across blocks; dead stores and slots; loop-invariant code motion,   *)
(* which moves loads too.  "harmless" is the set of functions a call of    *)
(* which writes no memory (memoryNonClobberingFunctionNames).              *)
(***************************************************************************)
EXTENDS IR

\* Every use of a value, as the instruction, the operand and the block.
Uses(fn, id) ==
  {<<b, k, n>> \in {<<b, k, n>> : b \in BlockIndices(fn),
                                  k \in 1 .. Max({Len(blk.insts) : blk \in Range(fn.blocks)}),
                                  n \in 1 .. 6} :
     /\ k \in DOMAIN fn.blocks[b].insts
     /\ n \in DOMAIN fn.blocks[b].insts[k].args
     /\ fn.blocks[b].insts[k].args[n] = Var(id)}

IsAddressUse(fn, u) ==
  LET op == fn.blocks[u[1]].insts[u[2]].op
  IN  (op = "load" /\ u[3] = 1) \/ (op = "store" /\ u[3] = 2)

\* Slots of one word, and the block each is allocated in.
ScalarSlots(fn) == {i.res : i \in {j \in Range(AllInsts(fn)) :
                                     j.op = "alloca" /\ j.args = <<Const(4)>>}}
HomeBlock(fn, id) == CHOOSE b \in BlockIndices(fn) :
                       \E i \in Range(fn.blocks[b].insts) : i.op = "alloca" /\ i.res = id

\* promotableScalarAllocas
PromotableScalarAllocas(fn) ==
  {id \in ScalarSlots(fn) : \A u \in Uses(fn, id) : IsAddressUse(fn, u)}

StoresTo(i, slots) == i.op = "store" /\ IsVar(i.args[2]) /\ i.args[2][2] \in slots
LoadsFrom(i, slots) == i.op = "load" /\ IsVar(i.args[1]) /\ i.args[1][2] \in slots
Zero == Const(0)
ValueOr(map, k, default) == IF k \in DOMAIN map THEN map[k] ELSE default

\* How both promotions rewrite: slots, stores to them and loads from them
\* go, a load being replaced by what the slot holds at that point.
PromoteVisit(slots, st, i) ==
  CASE i.op = "alloca" /\ i.res \in slots -> Emitted(st, <<>>)
    [] StoresTo(i, slots) ->
         Emitted([st EXCEPT !.current = Bind(@, i.args[2][2], i.args[1])], <<>>)
    [] LoadsFrom(i, slots) -> Replaced(st, i, ValueOr(st.current, i.args[1][2], Zero))
    [] OTHER -> Emitted(st, <<i>>)

\* promoteSingleBlockAllocas: slots used in their own block only; one that
\* is read before it is written reads 0.
PromoteSingleBlockAllocas(fn) ==
  LET slots == {id \in PromotableScalarAllocas(fn) :
                  /\ Uses(fn, id) # {}
                  /\ \A u \in Uses(fn, id) : u[1] = HomeBlock(fn, id)}
  IN  IF slots = {} THEN fn
      ELSE Settled(Sweep(fn, [repl |-> Emptymap, current |-> Emptymap],
                         LAMBDA st, b : [st EXCEPT !.current = Emptymap],
                         LAMBDA st, i : PromoteVisit(slots, st, i)))

----------------------------------------------------------------------------
(* promoteScalarAllocasToSSA                                               *)

DominanceFrontier(fn, preds, dom, d) ==
  {j \in BlockIndices(fn) :
     /\ \E p \in Range(preds[j]) : d \in dom[p]
     /\ ~(d # j /\ d \in dom[j])}

StoreBlocks(fn, id) ==
  {b \in BlockIndices(fn) : \E i \in Range(fn.blocks[b].insts) : StoresTo(i, {id})}

\* Loaded before any store of the block.
ExposedIn(fn, b, id) ==
  \E k \in DOMAIN fn.blocks[b].insts :
    /\ LoadsFrom(fn.blocks[b].insts[k], {id})
    /\ \A j \in 1 .. (k - 1) : ~StoresTo(fn.blocks[b].insts[j], {id})

\* The blocks a slot is live into: the least set that has the blocks exposed
\* to it and the predecessors' blocks that do not write it.
RECURSIVE LiveInto(_, _, _)
LiveInto(fn, id, live) ==
  LET more == live \cup {b \in BlockIndices(fn) \ StoreBlocks(fn, id) :
                           Successors(fn, b) \cap live # {}}
  IN  IF more = live THEN live ELSE LiveInto(fn, id, more)
LiveBlocks(fn, id) == LiveInto(fn, id, {b \in BlockIndices(fn) : ExposedIn(fn, b, id)})

RECURSIVE WithFrontiers(_, _, _, _, _)
WithFrontiers(fn, preds, dom, live, defs) ==
  LET more == defs \cup ((UNION {DominanceFrontier(fn, preds, dom, d) : d \in defs}
                            \cap live) \ {1})
  IN  IF more = defs THEN defs ELSE WithFrontiers(fn, preds, dom, live, more)

\* A phi at every live frontier of the definitions (the entry counts as one)
\* and, beyond that, at every join the slot is live into.
PhiBlocks(fn, preds, dom, id) ==
  LET live == LiveBlocks(fn, id)
      defs == WithFrontiers(fn, preds, dom, live, {1} \cup StoreBlocks(fn, id))
      frontier == UNION {DominanceFrontier(fn, preds, dom, d) : d \in defs}
  IN  {b \in live \ {1} : b \in frontier \/ Len(preds[b]) >= 2}

\* What each slot holds at the end of each block, by sweeps over the blocks;
\* at a join without a phi, what all predecessors agree on, or else 0.
SlotsIn(fn, preds, slots, phis, out, b) ==
  LET Held(p, a) == ValueOr(out[p], a, Zero)
      Merged(a) == IF <<a, b>> \in DOMAIN phis THEN Var(phis[<<a, b>>])
                   ELSE IF \A p \in Range(preds[b]) : Held(p, a) = Held(preds[b][1], a)
                        THEN Held(preds[b][1], a) ELSE Zero
  IN  IF b = 1 \/ preds[b] = <<>> THEN [a \in slots |-> Zero]
      ELSE IF Len(preds[b]) = 1 THEN out[preds[b][1]]
      ELSE [a \in slots |-> Merged(a)]

AfterStores(insts, slots, held) ==
  Through(LAMBDA m, i : IF StoresTo(i, slots) THEN Bind(m, i.args[2][2], i.args[1]) ELSE m,
           held, insts)

RECURSIVE SlotsOut(_, _, _, _, _)
SlotsOut(fn, preds, slots, phis, out) ==
  LET Visit(o, b) == [o EXCEPT ![b] = AfterStores(fn.blocks[b].insts, slots,
                                                  SlotsIn(fn, preds, slots, phis, o, b))]
      swept == Through(Visit, out, [b \in BlockIndices(fn) |-> b])
  IN  IF swept = out THEN out ELSE SlotsOut(fn, preds, slots, phis, swept)

PromoteScalarAllocasToSSA(fn) ==
  LET slots == PromotableScalarAllocas(fn)
      preds == Predecessors(fn)
      dom == Dominators(fn)
      places == UNION {{<<a, b>> : b \in PhiBlocks(fn, preds, dom, a)} : a \in slots}
      Rank(x) == Cardinality({y \in places : y[1] < x[1] \/ (y[1] = x[1] /\ y[2] < x[2])})
      phis == Table([x \in places |-> NextValueId(fn) + Rank(x)])
      out == SlotsOut(fn, preds, slots, phis, Table([b \in BlockIndices(fn) |-> Emptymap]))
      PhiOf(x) == Phi(phis[x], [n \in DOMAIN preds[x[2]] |->
                                  ValueOr(out[preds[x[2]][n]], x[1], Zero)],
                      [n \in DOMAIN preds[x[2]] |-> fn.blocks[preds[x[2]][n]].label], "tight")
      PhisOf(b) == FlattenSeq([a \in 1 .. NextValueId(fn) |->
                     IF <<a - 1, b>> \in places THEN <<PhiOf(<<a - 1, b>>)>> ELSE <<>>])
      placed == [fn EXCEPT !.blocks =
                   [b \in DOMAIN @ |-> [@[b] EXCEPT !.insts = PhisOf(b) \o @]]]
  IN  IF slots = {} THEN fn
      ELSE Settled(Sweep(placed, [repl |-> Emptymap, current |-> Emptymap],
                         LAMBDA st, b : [st EXCEPT !.current =
                                           SlotsIn(fn, preds, slots, phis, out, b)],
                         LAMBDA st, i : PromoteVisit(slots, st, i)))

----------------------------------------------------------------------------
(* Addresses.  A key names a cell as a root and the constant indices taken *)
(* from it; an address whose index is not known is its own root.           *)
Key(kind, id, path) == [root |-> <<kind, id>>, path |-> path]
NoRoot == <<"none", 0>>

\* exactMemoryAddressKey
RECURSIVE ExactKey(_, _)
ExactKey(fn, v) ==
  LET def == Definition(fn, v[2])
      base == ExactKey(fn, def.args[1])
  IN  IF ~IsVar(v) THEN Key("global", v[2], <<>>)
      ELSE IF Defined(fn, v[2]) = {} THEN Key("value", v[2], <<>>)
      ELSE IF def.op = "alloca" THEN Key("alloca", v[2], <<>>)
      ELSE IF def.op = "gep" /\ IsConst(def.args[2])
           THEN [base EXCEPT !.path = Append(@, def.args[2][2])]
      ELSE Key("value", v[2], <<>>)

\* memoryAddressRoot, and with the parameters as roots of their own.
RECURSIVE AddressRoot(_, _, _)
AddressRoot(fn, v, params) ==
  LET def == Definition(fn, v[2])
  IN  IF IsConst(v) THEN NoRoot
      ELSE IF IsGlobal(v) THEN <<"global", v[2]>>
      ELSE IF v[2] \in Range(params)
           THEN <<"param", CHOOSE n \in DOMAIN params : params[n] = v[2]>>
      ELSE IF Defined(fn, v[2]) = {} THEN NoRoot
      ELSE IF def.op = "alloca" THEN <<"alloca", v[2]>>
      ELSE IF def.op = "gep" THEN AddressRoot(fn, def.args[1], params)
      ELSE NoRoot

\* invalidateMemoryForStore.  A known cell survives a store to another root
\* (roots are compared as the beginnings of text, so that slot 1 is taken
\* for slots 12 and 13 too) and one by constant indices survives another.
BeginsWith(key, root) ==
  /\ key.root[1] = root[1]
  /\ \/ key.root[2] = root[2]
     \/ root[1] = "alloca" /\ root[2] # 0 /\ \E n \in {10, 100} : key.root[2] \div n = root[2]
IsPrecise(key, root) == key.root = root /\ key.path # <<>>

\* Mutation: a store changes its own cell only.
InvalidateNothing(known, key, root) == known

InvalidateForStore(known, key, root) ==
  IF root = NoRoot THEN Emptymap
  ELSE Table(Restrict(known, {k \in DOMAIN known :
         \/ ~BeginsWith(k, root)
         \/ IsPrecise(key, root) /\ k # key /\ IsPrecise(k, root)}))

StoreInto(fn, known, i) ==
  LET key == ExactKey(fn, i.args[2])
  IN  Bind(InvalidateForStore(known, key, AddressRoot(fn, i.args[2], <<>>)), key, i.args[1])

----------------------------------------------------------------------------
\* forwardLocalMemory: a load takes the value of the last store to its key in
\* the block, or of an earlier load from it.  Keys are read off the function
\* as it was before the pass.
ForwardLocalMemory(fn, harmless) ==
  LET Visit(st, i) ==
        LET key == ExactKey(fn, i.args[1])
        IN  CASE i.op = "store" -> Emitted([st EXCEPT !.known = StoreInto(fn, @, i)], <<i>>)
              [] i.op = "load" ->
                   IF key \in DOMAIN st.known THEN Replaced(st, i, st.known[key])
                   ELSE Emitted([st EXCEPT !.known = Bind(@, key, Var(i.res))], <<i>>)
              [] i.op = "call" /\ i.attr \notin harmless ->
                   Emitted([st EXCEPT !.known = Emptymap], <<i>>)
              [] OTHER -> Emitted(st, <<i>>)
  IN  Settled(Sweep(fn, [repl |-> Emptymap, known |-> Emptymap],
                    LAMBDA st, b : [st EXCEPT !.known = Emptymap], Visit))

\* What is known on entry to each block: what all its predecessors know at
\* their ends, found by sweeps that start from knowing nothing.
Meet(preds, out, b) ==
  LET first == out[preds[b][1]]
      Agreed(k) == \A p \in Range(preds[b]) : k \in DOMAIN out[p] /\ out[p][k] = first[k]
  IN  IF b = 1 \/ preds[b] = <<>> THEN Emptymap
      ELSE Table(Restrict(first, {k \in DOMAIN first : Agreed(k)}))

KnownOnEntry(fn, Transfer(_, _)) ==
  LET preds == Predecessors(fn)
      Visit(out, b) ==
        [out EXCEPT ![b] = Through(Transfer, Meet(preds, out, b), fn.blocks[b].insts)]
      RECURSIVE Fixpoint(_)
      Fixpoint(out) ==
        LET swept == Through(Visit, out, [b \in BlockIndices(fn) |-> b])
        IN  IF swept = out THEN Table([b \in BlockIndices(fn) |-> Meet(preds, out, b)])
            ELSE Fixpoint(swept)
  IN  Fixpoint(Table([b \in BlockIndices(fn) |-> Emptymap]))

\* forwardCrossBlockMemory: the same for whole slots, across blocks.
ForwardCrossBlockMemory(fn) ==
  LET slots == PromotableScalarAllocas(fn)
      Transfer(known, i) == IF StoresTo(i, slots) THEN Bind(known, i.args[2][2], i.args[1])
                            ELSE known
      entry == KnownOnEntry(fn, Transfer)
      Visit(st, i) ==
        IF LoadsFrom(i, slots) /\ i.args[1][2] \in DOMAIN st.known
        THEN Replaced(st, i, st.known[i.args[1][2]])
        ELSE Emitted([st EXCEPT !.known = Transfer(@, i)], <<i>>)
  IN  IF slots = {} THEN fn
      ELSE Settled(Sweep(fn, [repl |-> Emptymap, known |-> Emptymap],
                         LAMBDA st, b : [st EXCEPT !.known = entry[b]], Visit))

\* forwardCrossBlockExactMemory: by keys, across blocks; here a load makes
\* nothing known.
ForwardCrossBlockExactMemory(fn, harmless) ==
  LET Transfer(known, i) ==
        CASE i.op = "call" /\ i.attr \notin harmless -> Emptymap
          [] i.op = "store" -> StoreInto(fn, known, i)
          [] OTHER -> known
      entry == KnownOnEntry(fn, Transfer)
      Visit(st, i) ==
        LET key == ExactKey(fn, i.args[1])
        IN  IF i.op = "load" /\ key \in DOMAIN st.known THEN Replaced(st, i, st.known[key])
            ELSE Emitted([st EXCEPT !.known = Transfer(@, i)], <<i>>)
  IN  Settled(Sweep(fn, [repl |-> Emptymap, known |-> Emptymap],
                    LAMBDA st, b : [st EXCEPT !.known = entry[b]], Visit))

----------------------------------------------------------------------------
(* eliminateLocalDeadStores: backwards through a block, a store to a key   *)
(* that is stored to again before any load from it, or any call, goes; a   *)
(* store by an address without a key ends what is known.  From the first   *)
(* block that loses a store on, every block is rebuilt, and the table of   *)
(* definitions goes on pointing into the storage the old ones have left:   *)
(* in later blocks an address defined there may still read as it was, or   *)
(* as having no operands, which leaves it without a key.                   *)
NoKey == Key("none", 0, <<>>)

DirectKey(fn, v, lost) ==
  LET key == ExactKey(fn, v)
  IN  IF key.root[1] = "value" \/ (IsVar(v) /\ v[2] \in lost) THEN NoKey ELSE key

DeadStores(fn, b, lost) ==
  LET insts == fn.blocks[b].insts
      Back(acc, k) ==
        LET i == insts[k]
            key == DirectKey(fn, i.args[IF i.op = "load" THEN 1 ELSE 2], lost)
        IN  CASE i.op = "call" -> [acc EXCEPT !.over = {}]
              [] i.op = "load" -> [acc EXCEPT !.over = IF key = NoKey THEN {} ELSE @ \ {key}]
              [] i.op = "store" ->
                   IF key = NoKey THEN [acc EXCEPT !.over = {}]
                   ELSE [dead |-> acc.dead \cup (IF key \in acc.over THEN {k} ELSE {}),
                         over |-> acc.over \cup {key}]
              [] OTHER -> acc
  IN  Through(Back, [dead |-> {}, over |-> {}], Reverse([k \in DOMAIN insts |-> k])).dead

EliminateLocalDeadStores(fn, intact) ==
  LET OneBlock(acc, b) ==
        LET insts == fn.blocks[b].insts
            dead == DeadStores(fn, b, acc.lost)
            kept == SelectSeq([k \in DOMAIN insts |-> k], LAMBDA k : k \notin dead)
            rebuilt == acc.rebuilt \/ dead # {}
        IN  [blocks |-> Append(acc.blocks, Block(fn.blocks[b].label,
                                                 [n \in DOMAIN kept |-> insts[kept[n]]])),
             rebuilt |-> rebuilt,
             lost |-> IF rebuilt /\ ~intact THEN acc.lost \cup {i.res : i \in Range(insts)}
                      ELSE acc.lost]
  IN  [fn EXCEPT !.blocks = Through(OneBlock, [blocks |-> <<>>, rebuilt |-> FALSE, lost |-> {}],
                                     [b \in BlockIndices(fn) |-> b]).blocks]

StaysWithout(dead, i) == ~(i.op = "alloca" /\ i.res \in dead) /\ ~StoresTo(i, dead)

\* eliminateDeadAllocas: slots of any size never loaded from and used for
\* nothing but the address of stores go, with those stores.
EliminateDeadAllocas(fn) ==
  LET slots == {i.res : i \in {j \in Range(AllInsts(fn)) : j.op = "alloca"}}
      dead == {id \in slots : \A u \in Uses(fn, id) :
                 IsAddressUse(fn, u) /\ fn.blocks[u[1]].insts[u[2]].op = "store"}
      Without(b) == [b EXCEPT !.insts = SelectSeq(@, LAMBDA i : StaysWithout(dead, i))]
  IN  [fn EXCEPT !.blocks = [b \in DOMAIN @ |-> Without(@[b])]]

----------------------------------------------------------------------------
(* hoistLoopInvariants.  A branch to a block no later in the list closes a *)
(* loop; what it computes from outside values alone moves to the end of    *)
(* the one block that enters it.                                           *)
HoistableOps == {"add", "sub", "mul", "div", "mod", "neg", "not", "icmp", "cast", "gep"}

\* The predecessors of the tail, back to the header; a block that branches to
\* itself is followed like any other, and brings in all that leads to it.
RECURSIVE LoopBody(_, _, _)
LoopBody(preds, stop, loop) ==
  LET more == loop \cup UNION {Range(preds[b]) : b \in loop \ stop}
  IN  IF more = loop THEN loop ELSE LoopBody(preds, stop, more)

\* rootsMayAlias: two parameters may be told apart by all their call sites.
RootsMayAlias(l, r, apart) ==
  CASE l = NoRoot \/ r = NoRoot \/ l = r -> TRUE
    [] l # r /\ l[1] = "param" /\ r[1] = "param" -> {l[2], r[2]} \notin apart
    [] OTHER -> l[1] = "param" \/ r[1] = "param"

\* loadSafeToHoistFromLoop, for the instruction at position k of block b of
\* fn, whose definitions are those of def.  The instructions of b before k
\* have been moved out of the block by the time it looks: a store among them
\* has no operands left and is passed over, a call still reads as a call.
LoadSafeToHoist(fn, def, loop, b, k, apart) ==
  LET root(v) == AddressRoot(def, v, fn.params)
      address == root(fn.blocks[b].insts[k].args[1])
      Harmless(c, j) ==
        LET i == fn.blocks[c].insts[j]
        IN  /\ i.op # "call"
            /\ i.op = "store" /\ ~(c = b /\ j < k)
                 => ~RootsMayAlias(address, root(i.args[2]), apart)
  IN  /\ address # NoRoot
      /\ \A c \in loop : \A j \in DOMAIN fn.blocks[c].insts : Harmless(c, j)

\* Mutation: an operand may be computed by what stays in the loop.
AnywhereAtAll(def, loop, hoisted, v) == TRUE

\* valueAvailableBeforeLoop: no result of the loop, or one moved out of it.
AvailableBeforeLoop(def, loop, hoisted, v) ==
  \/ ~IsVar(v)
  \/ \E h \in Range(hoisted) : h.res = v[2]
  \/ \A c \in loop : \A i \in Range(def.blocks[c].insts) : i.res # v[2]

\* One pass over a block of the loop: st is [fn, hoisted], the instructions
\* hoisted so far in order.
HoistFromBlock(st, def, loop, b, apart) ==
  LET insts == st.fn.blocks[b].insts
      Moves(out, k) ==
        LET i == insts[k]
        IN  /\ i.res # NoResult
            /\ i.op \in HoistableOps \cup {"load"}
            /\ \A v \in Range(i.args) : AvailableBeforeLoop(def, loop, out.hoisted, v)
            /\ i.op = "load" => LoadSafeToHoist(st.fn, def, loop, b, k, apart)
      OneInst(out, k) ==
        IF Moves(out, k) THEN [out EXCEPT !.hoisted = Append(@, insts[k])]
        ELSE [out EXCEPT !.kept = Append(@, insts[k])]
      out == Through(OneInst, [kept |-> <<>>, hoisted |-> st.hoisted],
                      [k \in DOMAIN insts |-> k])
  IN  [fn |-> [st.fn EXCEPT !.blocks[b].insts = out.kept], hoisted |-> out.hoisted]

RECURSIVE HoistFrom(_, _, _, _)
HoistFrom(st, def, loop, apart) ==
  LET more == Through(LAMBDA s, b : HoistFromBlock(s, def, loop, b, apart),
                       st, SelectSeq([b \in BlockIndices(def) |-> b], LAMBDA b : b \in loop))
  IN  IF more = st THEN st ELSE HoistFrom(more, def, loop, apart)

HoistLoop(fn, def, preds, tail, header, apart) ==
  LET loop == LoopBody(preds, {header} \ {tail}, {header, tail})
      entries == SelectSeq(preds[header], LAMBDA p : p \notin loop)
      pre == entries[1]
      st == HoistFrom([fn |-> fn, hoisted |-> <<>>], def, loop, apart)
      before == st.fn.blocks[pre].insts
  IN  IF header > tail \/ Len(entries) # 1 \/ fn.blocks[pre].insts = <<>> THEN fn
      ELSE [st.fn EXCEPT !.blocks[pre].insts = Front(before) \o st.hoisted \o <<Last(before)>>]

\* apart: the pairs of pointer parameters no call passes one object to.
HoistLoopInvariants(fn, apart) ==
  LET preds == Predecessors(fn)
      Targets(b) == SelectSeq(TargetLabels(fn.blocks[b]), LAMBDA l : l \in Labels(fn))
      FromTail(f, tail) ==
        Through(LAMBDA g, l : HoistLoop(g, fn, preds, tail, IndexOf(fn, l), apart),
                 f, Targets(tail))
  IN  IF Len(fn.blocks) < 2 THEN fn
      ELSE Through(FromTail, fn, [b \in BlockIndices(fn) |-> b])

\* inferNoAliasPointerParamPairs, on the functions as they are built: the
\* roots of the arguments, a slot being told from those of other functions.
ArgumentRoot(funs, caller, v) ==
  LET root == AddressRoot(funs[caller], v, <<>>)
  IN  IF root[1] = "alloca" THEN <<caller, root[2]>> ELSE root

CallSites(funs, callee) ==
  UNION {{<<f, i>> : i \in {j \in Range(AllInsts(funs[f])) :
                              j.op = "call" /\ j.attr = callee}} : f \in DOMAIN funs}

NoAliasParamPairs(funs, f) ==
  LET pairs == {{m, n} : m \in DOMAIN funs[f].params, n \in DOMAIN funs[f].params}
      Apart(m, n) == \A c \in CallSites(funs, f) :
        LET l == ArgumentRoot(funs, c[1], c[2].args[m])
            r == ArgumentRoot(funs, c[1], c[2].args[n])
        IN  l # NoRoot /\ r # NoRoot /\ l # r
  IN  IF CallSites(funs, f) = {} THEN {}
      ELSE {p \in pairs : Cardinality(p) = 2 /\ Apart(Min(p), Max(p))}

============================================================================
