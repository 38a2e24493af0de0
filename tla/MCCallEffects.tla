--------------------------- MODULE MCCallEffects ---------------------------
(* Small modules for CallEffects: main and two more functions, every call  *)
(* graph among them, one runtime routine that writes user memory and one   *)
(* that does not, and at most one reason why a body is not harmless.       *)
EXTENDS IoReachability

CONSTANTS MCKinds,   \* the bodies tried: which flag of Effect is set, if any
          MCOutside  \* the sets of runtime routines a body calls

Body(kind, callees) ==
  [store |-> kind = "store", load |-> kind = "load",
   opaque |-> kind = "opaque", calls |-> callees]

\* SysY has no prototypes, so only recursion and earlier definitions are
\* callable in source; the passes do not rely on it, and nor does this set.
\* A second reason in the same body would add nothing to the first one.
MCBodies == {Body(r[1], c \cup r[2]) :
               r \in {r \in MCKinds \X MCOutside : r[1] = "plain" \/ r[2] = {}},
               c \in SUBSET (Functions \ {Main})}

MCMainBodies == {Body("plain", c) : c \in SUBSET (Functions \ {Main})}

MCPrograms == {[f \in Functions |-> IF f = Main THEN m ELSE others[f]] :
                 m \in MCMainBodies,
                 others \in [Functions \ {Main} -> MCBodies]}

============================================================================
