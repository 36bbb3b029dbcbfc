------------------------------ MODULE AstNodeDef ------------------------------
(***************************************************************************)
(* src/src/compiler/ast_node_def.py: the generator that turns the node     *)
(* definitions of ast_node_def.ini into three C headers.  main() loads the *)
(* definitions and runs write_list, write_structs and write_funcs in that  *)
(* order; an exception in one of them (a KeyError for a base that names no *)
(* section, a RecursionError for a cyclic base chain) ends the program and *)
(* leaves the header being written cut short and the later ones unwritten. *)
(*                                                                         *)
(* A node definition keeps its name and base; its attr list, ctor and dtor *)
(* code are abstracted to whether they are present, and a member, a ctor   *)
(* or a dtor statement is named after the node it comes from.              *)
(***************************************************************************)
EXTENDS Integers, Sequences, SequencesExt

CONSTANTS
  NameSeq,    \* the sections of the .ini, in file order
  Abstract,   \* the section names that start with '.'
  NoBase,     \* no 'base' key (or an empty one)
  Undefined   \* a 'base' value that names no section

Names == Range(NameSeq)

ASSUME /\ IsInjective(NameSeq)
       /\ Abstract \subseteq Names
       /\ {NoBase, Undefined} \cap Names = {}

Bases == Names \cup {NoBase, Undefined}

VARIABLES
  defs,        \* load_defs' result: the NodeDef list
  phase,       \* "list", "structs", "funcs" (next writer), "done", "error"
  listOut,     \* ast_node_list.h: the ELEM entries
  structsOut,  \* ast_node_structs.h: one record per struct written
  funcsOut     \* ast_node_funcs.h: one record per init/fini pair written

vars == <<defs, phase, listOut, structsOut, funcsOut>>

-----------------------------------------------------------------------------

\* load_defs: one NodeDef per section, in section order, for every value
\* the 'base' key can take and every presence of 'attr', 'ctor', 'dtor'.
LoadDefs ==
  { [i \in DOMAIN NameSeq |->
       [name |-> NameSeq[i], base |-> b[NameSeq[i]],
        attr |-> NameSeq[i] \in a, ctor |-> NameSeq[i] \in c,
        dtor |-> NameSeq[i] \in d]] :
      b \in [Names -> Bases], a \in SUBSET Names,
      c \in SUBSET Names, d \in SUBSET Names }

\* node_defs_dict[name]
Def(n) == defs[CHOOSE i \in DOMAIN defs : defs[i].name = n]

\* The Python recursion limit, as reached by put_members on a cyclic base
\* chain; every acyclic chain of the model is shorter.
RecursionLimit == Len(NameSeq)

RECURSIVE BaseOutcome(_, _)
\* How put_members(node) ends: "ok", or the exception its base lookups
\* raise; k is the recursion depth still available.
BaseOutcome(n, k) ==
  LET b == Def(n).base
  IN IF b = NoBase THEN "ok"
     ELSE IF b \notin Names THEN "KeyError"
     ELSE IF k = 0 THEN "RecursionError"
     ELSE BaseOutcome(b, k - 1)

RECURSIVE Chain(_)
\* The nodes put_members visits, base first (for an "ok" node).
Chain(n) ==
  IF Def(n).base = NoBase THEN <<n>> ELSE Chain(Def(n).base) \o <<n>>

-----------------------------------------------------------------------------
(* Plausible slips, each a variant of one definition below.                *)

\* put_members writing the node's own attrs before recursing into its base
Members_OwnFirst(n) ==
  SelectSeq(Reverse(Chain(n)), LAMBDA m : Def(m).attr)

\* the members put_members writes for node n: the attrs along the chain
Members(n) ==
  SelectSeq(Chain(n), LAMBDA m : Def(m).attr)

\* fini calling the base's fini before running its own dtor code
FiniBody_BaseFirst(d) ==
  LET body == (IF d.base # NoBase THEN <<[op |-> "fini", of |-> d.base]>>
               ELSE <<>>)
              \o (IF d.dtor THEN <<[op |-> "dtor", of |-> d.name]>> ELSE <<>>)
  IN IF body = <<>> THEN <<[op |-> "unused", of |-> d.name]>> ELSE body

\* init written without the 'if node.base:' test
InitBody_NoBaseGuard(d) ==
  <<[op |-> "init", of |-> d.base]>>
  \o (IF d.ctor THEN <<[op |-> "ctor", of |-> d.name]>> ELSE <<>>)

\* The statements of the generated init: the base's init, then the ctor
\* code; ow_unused_var(node) when there is neither.
InitBody(d) ==
  LET body == (IF d.base # NoBase THEN <<[op |-> "init", of |-> d.base]>>
               ELSE <<>>)
              \o (IF d.ctor THEN <<[op |-> "ctor", of |-> d.name]>> ELSE <<>>)
  IN IF body = <<>> THEN <<[op |-> "unused", of |-> d.name]>> ELSE body

\* The statements of the generated fini: the dtor code, then the base's fini.
FiniBody(d) ==
  LET body == (IF d.dtor THEN <<[op |-> "dtor", of |-> d.name]>> ELSE <<>>)
              \o (IF d.base # NoBase THEN <<[op |-> "fini", of |-> d.base]>>
                  ELSE <<>>)
  IN IF body = <<>> THEN <<[op |-> "unused", of |-> d.name]>> ELSE body

NextWriter(p) ==
  CASE p = "list" -> "structs" [] p = "structs" -> "funcs" [] p = "funcs" -> "done"

-----------------------------------------------------------------------------

Init ==
  /\ defs \in LoadDefs
  /\ phase = "list"
  /\ listOut = <<>> /\ structsOut = <<>> /\ funcsOut = <<>>

\* write_list: an ELEM entry for every node whose name has no leading '.'.
WriteList ==
  /\ phase = "list"
  /\ listOut' = SelectSeq(NameSeq, LAMBDA n : n \notin Abstract)
  /\ phase' = NextWriter("list")
  /\ UNCHANGED <<defs, structsOut, funcsOut>>

\* write_structs with put_members passing over a base that names no
\* section (node_defs_dict.get) instead of raising KeyError
WriteStructs_SkipMissingBase ==
  /\ phase = "structs"
  /\ LET Bad == {i \in DOMAIN defs :
                   BaseOutcome(defs[i].name, RecursionLimit) = "RecursionError"}
         stop == IF Bad = {} THEN Len(defs) + 1 ELSE Min(Bad)
         ok(i) == BaseOutcome(defs[i].name, RecursionLimit) = "ok"
     IN /\ structsOut' =
             [i \in 1 .. Min({stop, Len(defs)}) |->
                IF i = stop
                THEN [name |-> defs[i].name, members |-> <<>>, closed |-> FALSE]
                ELSE [name |-> defs[i].name,
                      members |-> IF ok(i) THEN Members(defs[i].name) ELSE <<>>,
                      closed |-> TRUE]]
        /\ phase' = IF Bad = {} THEN NextWriter("structs") ELSE "error"
  /\ UNCHANGED <<defs, listOut, funcsOut>>

\* write_structs: for each node the struct head, then put_members.  The
\* first node whose base chain raises leaves its struct open and ends main.
WriteStructs ==
  /\ phase = "structs"
  /\ LET Bad == {i \in DOMAIN defs : BaseOutcome(defs[i].name, RecursionLimit) # "ok"}
         stop == IF Bad = {} THEN Len(defs) + 1 ELSE Min(Bad)
     IN /\ structsOut' =
             [i \in 1 .. Min({stop, Len(defs)}) |->
                IF i = stop
                THEN [name |-> defs[i].name, members |-> <<>>, closed |-> FALSE]
                ELSE [name |-> defs[i].name, members |-> Members(defs[i].name),
                      closed |-> TRUE]]
        /\ phase' = IF Bad = {} THEN NextWriter("structs") ELSE "error"
  /\ UNCHANGED <<defs, listOut, funcsOut>>

\* write_funcs: for each node an init and a fini function.  The base
\* lookup comes before anything is written for the node, so a base that
\* names no section ends main with the earlier nodes' functions written.
WriteFuncs ==
  /\ phase = "funcs"
  /\ LET Bad == {i \in DOMAIN defs : defs[i].base \notin Names \cup {NoBase}}
         stop == IF Bad = {} THEN Len(defs) + 1 ELSE Min(Bad)
     IN /\ funcsOut' = [i \in 1 .. stop - 1 |->
                          [name |-> defs[i].name, init |-> InitBody(defs[i]),
                           fini |-> FiniBody(defs[i])]]
        /\ phase' = IF Bad = {} THEN NextWriter("funcs") ELSE "error"
  /\ UNCHANGED <<defs, listOut, structsOut>>

Next == WriteList \/ WriteStructs \/ WriteFuncs

Spec == Init /\ [][Next]_vars

-----------------------------------------------------------------------------
(* What the generated C does when it runs: the ctor and dtor statements a  *)
(* call executes, following the base calls through ast_node_funcs.h.       *)

Written == {funcsOut[i].name : i \in DOMAIN funcsOut}

Entry(n) == funcsOut[CHOOSE i \in DOMAIN funcsOut : funcsOut[i].name = n]

RECURSIVE Calls(_, _, _)
\* The statements run by calling fn ("init" or "fini") of node n, with k
\* nested calls left before the call is taken to recurse for ever.
Calls(n, fn, k) ==
  IF k = 0 THEN <<[op |-> "diverge", of |-> n]>>
  ELSE IF n \notin Written THEN <<[op |-> "undefined", of |-> n]>>
  ELSE LET body == Entry(n)[fn]
       IN FlattenSeq([j \in DOMAIN body |->
                        CASE body[j].op \in {"init", "fini"} ->
                               Calls(body[j].of, body[j].op, k - 1)
                          [] body[j].op = "unused" -> <<>>
                          [] OTHER -> <<body[j]>>])

Run(n, fn) == Calls(n, fn, Len(NameSeq) + 1)

\* The nodes whose statements of kind op a run executes, in order.
Owners(run, op) ==
  LET s == SelectSeq(run, LAMBDA c : c.op = op)
  IN [j \in DOMAIN s |-> s[j].of]

-----------------------------------------------------------------------------

TypeOK ==
  /\ phase \in {"list", "structs", "funcs", "done", "error"}
  /\ listOut \in Seq(Names)
  /\ \A i \in DOMAIN structsOut :
       /\ structsOut[i].name \in Names /\ structsOut[i].closed \in BOOLEAN
       /\ structsOut[i].members \in Seq(Names)
  /\ \A i \in DOMAIN funcsOut :
       /\ funcsOut[i].name \in Names
       /\ funcsOut[i].init \in Seq([op : {"init", "ctor", "unused"}, of : Names])
       /\ funcsOut[i].fini \in Seq([op : {"fini", "dtor", "unused"}, of : Names])

FiniReversesInit ==
  \A n \in Written :
    LET both(m) == Def(m).ctor /\ Def(m).dtor
    IN SelectSeq(Owners(Run(n, "fini"), "dtor"), both)
         = Reverse(SelectSeq(Owners(Run(n, "init"), "ctor"), both))

\* The casts '(struct ow_ast_Base *)node' that write_funcs emits are sound:
\* in ast_node_structs.h the members of a node's base struct are a prefix
\* of the node's own members.
BaseStructIsPrefix ==
  \A i, j \in DOMAIN structsOut :
    /\ structsOut[i].closed /\ structsOut[j].closed
    /\ structsOut[j].name = Def(structsOut[i].name).base
    => IsPrefix(structsOut[j].members, structsOut[i].members)

\* A C function is defined before it is called: every base init or fini
\* that a generated function calls is one that ast_node_funcs.h defines
\* above it (the header declares no prototypes).
CalleesDefinedAbove ==
  \A i \in DOMAIN funcsOut : \A fn \in {"init", "fini"} :
    \A c \in Range(funcsOut[i][fn]) :
      c.op \in {"init", "fini"} =>
        \E j \in 1 .. i - 1 : funcsOut[j].name = c.of

\* ast_node_funcs.h is never left cut short: write_funcs looks up every
\* base again and would stop at the first that names no section, but main
\* only reaches it after put_members in write_structs has made the same
\* lookups without failing.
FuncsHeaderNeverPartial ==
  Len(funcsOut) \in {0, Len(defs)}

=============================================================================
