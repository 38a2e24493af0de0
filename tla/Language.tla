------------------------------- MODULE Language -------------------------------
(***************************************************************************)
(* What a program means: the syntax trees of Builder, carried out as the   *)
(* language has it, without blocks, slots or instructions.  It is not code *)
(* of the compiler; the builder, the passes and the code generator are     *)
(* held to it.                                                             *)
(*                                                                         *)
(* Operands are taken from left to right, an assignment's value before its *)
(* target.  A comparison, a negation, "&&" and "||" are 0 or 1.  Extents   *)
(* of arrays are literals and initialiser lists are flat; MCInitialisers   *)
(* is about the others.                                                    *)
(***************************************************************************)
EXTENDS IRSemantics

CONSTANT Fuel     \* a loop that goes round 2^Fuel times is cut

CallsDeep == 20   \* so many calls may be inside each other

(* The state: what the names in sight stand for (an address with extents,  *)
(* <<>> for a scalar), memory and its end, input and output, the value     *)
(* computed last, and how it goes on: "on"; "break", "continue" or         *)
(* "return" on the way out; "undefined"; "cut".                            *)
GoesOn(st) == st.flow = "on"
Ending(st, how) == [st EXCEPT !.flow = how]
After(st, next) == IF GoesOn(st) THEN next ELSE st
Valued(st, v) == [st EXCEPT !.value = v]
Thing(at, extents) == [at |-> at, extents |-> extents]
CellsOf(extents) == Through(LAMBDA p, d : p * d, 1, extents)

\* A new variable, each of whose cells holds v.
Declared(st, name, extents, v) ==
  [st EXCEPT !.names = Bind(@, name, Thing(st.top, extents)), !.top = @ + RegionSize,
             !.mem = [c \in st.top .. (st.top + CellsOf(extents) - 1) |-> v] @@ @]
PutAt(st, at, v) ==
  IF at \in DOMAIN st.mem THEN [st EXCEPT !.mem[at] = v] ELSE Ending(st, "undefined")
TakeFrom(st, at) == Valued(st, IF at \in DOMAIN st.mem THEN st.mem[at] ELSE Junk)

\* What decides must have a value.
Judged(st, yes, no) ==
  After(st, IF st.value = Junk THEN Ending(st, "undefined") ELSE IF st.value # 0 THEN yes ELSE no)
Truly(st) == Judged(st, Valued(st, 1), Valued(st, 0))

\* The cell that subscripts reach, those that are left out being 0; no cell
\* when one is out of its extent.  A parameter's first extent is not known.
Nowhere == -1
Outside(sub, extent) == sub = Junk \/ (extent >= 0 /\ sub \notin 0 .. (extent - 1))
Reached(thing, subs) ==
  Through(LAMBDA at, k : at * thing.extents[k] + (IF k \in DOMAIN subs THEN subs[k] ELSE 0),
          0, [k \in DOMAIN thing.extents |-> k])
CellAt(thing, subs) ==
  IF \E k \in DOMAIN subs : Outside(subs[k], thing.extents[k]) THEN Nowhere
  ELSE thing.at + Reached(thing, subs)
TakeElement(st, thing, subs) ==
  IF Len(subs) < Len(thing.extents) THEN Valued(st, CellAt(thing, subs))
  ELSE TakeFrom(st, CellAt(thing, subs))

Arithmetic(op, l, r) ==
  CASE Junk \in {l, r} \/ (op \in {"div", "mod"} /\ r = 0) -> Junk
    [] op = "add" -> Wrap(l + r) [] op = "sub" -> Wrap(l - r) [] op = "mul" -> Wrap(l * r)
    [] op = "div" /\ r # 0 -> Wrap(TruncDiv(l, r)) [] op = "mod" /\ r # 0 -> TruncMod(l, r)
    [] OTHER -> Truth(Compare(op, l, r))
Altered(op, v) ==
  CASE v = Junk \/ op = "plus" -> v
    [] op = "neg" -> Wrap(-v)
    [] op = "not" -> Truth(v = 0)

----------------------------------------------------------------------------
RECURSIVE Evaluate(_, _, _)
RECURSIVE CarryOut(_, _, _)

\* Several expressions, or statements, one after the other: the state after
\* them, and the values of the expressions.
AndAlso(vs, st) == [st |-> st, vs |-> Append(vs, st.value)]
RECURSIVE EvaluateRest(_, _, _)
EvaluateRest(unit, all, es) ==
  IF ~GoesOn(all.st) \/ es = <<>> THEN all
  ELSE EvaluateRest(unit, AndAlso(all.vs, Evaluate(unit, all.st, Head(es))), Tail(es))
EvaluateAll(unit, st, es) == EvaluateRest(unit, [st |-> st, vs |-> <<>>], es)
RECURSIVE CarryOutAll(_, _, _)
CarryOutAll(unit, st, ss) ==
  IF ~GoesOn(st) \/ ss = <<>> THEN st
  ELSE CarryOutAll(unit, CarryOut(unit, st, Head(ss)), Tail(ss))

\* A function sees the global names and its parameters: variables of its
\* own, but for an array, which is the one handed over.
Given(st, param, v) ==
  IF param.array
  THEN [st EXCEPT !.names = Bind(@, param.x, Thing(v, <<-1>> \o [d \in DOMAIN param.inner |-> param.inner[d].n]))]
  ELSE Declared(st, param.x, <<>>, v)
Inside(st, params, vs) ==
  Through(LAMBDA s, k : Given(s, params[k], vs[k]),
          [st EXCEPT !.names = st.globals, !.depth = @ + 1], [k \in DOMAIN vs |-> k])
\* Back in the caller.  What returns nothing has no value to use.
Back(caller, st) ==
  [st EXCEPT !.names = caller.names, !.depth = caller.depth,
             !.flow = IF @ = "return" THEN "on" ELSE @,
             !.value = IF st.flow = "return" THEN @ ELSE Junk]
CallOf(unit, f, all) ==
  After(all.st,
    CASE f = "getint" /\ all.st.in = <<>> -> Ending(all.st, "undefined")
      [] f = "getint" /\ all.st.in # <<>> ->
           [all.st EXCEPT !.value = Wrap(Head(all.st.in)), !.in = Tail(@)]
      [] f = "putint" /\ all.vs = <<Junk>> -> Ending(all.st, "undefined")
      [] f = "putint" /\ all.vs # <<Junk>> -> [all.st EXCEPT !.out = Append(@, all.vs[1])]
      [] f \in DOMAIN unit.funs /\ all.st.depth = CallsDeep -> Ending(all.st, "cut")
      [] OTHER -> Back(all.st, CarryOutAll(unit, Inside(all.st, unit.funs[f].params, all.vs),
                                           unit.funs[f].body)))

Second(unit, st, e) ==
  IF e.op = "and" THEN Judged(st, Truly(Evaluate(unit, st, e.r)), Valued(st, 0))
  ELSE Judged(st, Valued(st, 1), Truly(Evaluate(unit, st, e.r)))
FromAll(all, v) == After(all.st, Valued(all.st, v))
FromElement(all, thing) == After(all.st, TakeElement(all.st, thing, all.vs))
FromOne(op, st) == After(st, Valued(st, Altered(op, st.value)))
FromBoth(op, all) == After(all.st, Valued(all.st, Arithmetic(op, all.vs[1], all.vs[2])))

Evaluate(unit, st, e) ==
  After(st,
    CASE e.k = "lit" -> Valued(st, Wrap(e.n))
      [] e.k = "ref" -> TakeElement(st, st.names[e.x], <<>>)
      [] e.k = "sub" -> FromElement(EvaluateAll(unit, st, e.idx), st.names[e.x])
      [] e.k = "un" -> FromOne(e.op, Evaluate(unit, st, e.e))
      [] e.k = "bin" /\ e.op \in {"and", "or"} -> Second(unit, Evaluate(unit, st, e.l), e)
      [] e.k = "bin" /\ e.op \notin {"and", "or"} -> FromBoth(e.op, EvaluateAll(unit, st, <<e.l, e.r>>))
      [] e.k = "call" -> CallOf(unit, e.f, EvaluateAll(unit, st, e.args)))

Stored(all, thing, v) == After(all.st, PutAt(all.st, CellAt(thing, all.vs), v))
Assigned(unit, l, st) ==
  Stored(EvaluateAll(unit, st, IF l.k = "ref" THEN <<>> ELSE l.idx), st.names[l.x], st.value)

\* The elements of a list go to the first cells, the others are 0.
Filled(st, thing, vs) ==
  After(st, [st EXCEPT !.mem = [k \in thing.at .. (thing.at + Len(vs) - 1) |-> vs[k - thing.at + 1]] @@ @])
FilledFrom(all, name) == Filled(all.st, all.st.names[name], all.vs)
Variable(unit, st, d, none) ==
  LET extents == [k \in DOMAIN d.dims |-> d.dims[k].n]
  IN  CASE d.init.k = "none" -> Declared(st, d.x, extents, none)
        [] d.init.k = "braces" -> FilledFrom(EvaluateAll(unit, Declared(st, d.x, extents, 0), d.init.elems), d.x)
        [] OTHER -> FilledFrom(EvaluateAll(unit, Declared(st, d.x, extents, none), <<d.init>>), d.x)

\* A round of a loop, and 2^n of them or fewer.
NextRoundOf(st) == [st EXCEPT !.flow = IF @ = "continue" THEN "on" ELSE @]
RoundOf(unit, w, st) == Judged(st, NextRoundOf(CarryOut(unit, st, w.s)), Ending(st, "break"))
RECURSIVE Rounds(_, _, _, _)
Rounds(unit, w, st, n) ==
  After(st, IF n = 0 THEN RoundOf(unit, w, Evaluate(unit, st, w.c))
            ELSE Rounds(unit, w, Rounds(unit, w, st, n - 1), n - 1))
Looped(st) == [st EXCEPT !.flow = CASE @ = "break" -> "on" [] @ = "on" -> "cut" [] OTHER -> @]

EitherWay(unit, st, yes, no) == Judged(st, CarryOutAll(unit, st, yes), CarryOutAll(unit, st, no))

CarryOut(unit, st, s) ==
  After(st,
    CASE s.k = "block" -> [CarryOutAll(unit, st, s.ss) EXCEPT !.names = st.names]
      [] s.k = "decl" -> Variable(unit, st, s, Junk)
      [] s.k = "do" -> Evaluate(unit, st, s.e)
      [] s.k = "assign" -> Assigned(unit, s.l, Evaluate(unit, st, s.e))
      [] s.k = "return" -> LET r == Evaluate(unit, st, s.e) IN After(r, Ending(r, "return"))
      [] s.k = "return void" -> Ending(Valued(st, Junk), "return")
      [] s.k = "while" -> Looped(Rounds(unit, s, st, Fuel))
      [] s.k = "if" -> EitherWay(unit, Evaluate(unit, st, s.c), <<s.s>>, <<>>)
      [] s.k = "ifelse" -> EitherWay(unit, Evaluate(unit, st, s.c), <<s.s>>, <<s.t>>)
      [] s.k \in {"break", "continue"} -> Ending(st, s.k))

----------------------------------------------------------------------------
\* What a unit does on an input, as IRSemantics has it for a module.  main
\* returns 0 when it comes to its end.
Outcome(st) ==
  [status |-> CASE st.flow = "cut" -> "run"
                [] st.flow = "undefined" \/ st.value = Junk -> "undefined"
                [] OTHER -> "done",
   out |-> st.out, value |-> st.value]
Meant(unit, in) ==
  LET empty == [names |-> Emptymap, globals |-> Emptymap, mem |-> Emptymap, top |-> RegionSize,
                in |-> in, out |-> <<>>, value |-> 0, flow |-> "on", depth |-> 0]
      Begun(st) == [st EXCEPT !.globals = st.names]
      EndOfMain(st) == IF GoesOn(st) THEN Valued(st, 0) ELSE st
  IN  Outcome(EndOfMain(CarryOutAll(unit,
        Begun(Through(LAMBDA st, d : Variable(unit, st, d, 0), empty, unit.globals)), unit.funs["main"].body)))

=================================================================================
