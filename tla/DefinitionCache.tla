--------------------------- MODULE DefinitionCache ---------------------------
(***************************************************************************)
(* MessageDefinitionCache: the text that describes a type to a client is   *)
(* the definition of the type followed by those of everything it depends   *)
(* on, each once, all in the same format.  The cache only keeps what was   *)
(* read from a file, so it is left out; a text is the sequence of the      *)
(* types whose definitions it joins.                                       *)
(*                                                                         *)
(* Files[f] maps the types that have a definition in format f to the types *)
(* the definition depends on, in its order.  A service or an action whose  *)
(* file has the wrong number of parts is in Malformed; so is, with any     *)
(* definition in both formats, a type whose package is not installed       *)
(* (PackageNotFoundError).                                                 *)
(***************************************************************************)
EXTENDS Naturals, Sequences, FiniteSets, SequencesExt

CONSTANTS Types, Files, Malformed

Formats == {"msg", "idl"}

\* load_message_spec(): what stops it, if anything does.
LoadError(format, type) ==
    IF type \notin DOMAIN Files[format] THEN "missing"
    ELSE IF type \in Malformed THEN "malformed"
    ELSE "none"

Key_Fault(format, type) == <<"msg", type>>

\* DefinitionIdentifier: what the set of seen dependencies is a set of.
Key(format, type) == <<format, type>>

\* append_recursive() on one type: the types still to be appended are a stack,
\* todo.
AppendOne(format, w) ==
    LET type  == Head(w.todo)
        error == LoadError(format, type)
    IN  IF error # "none" THEN [w EXCEPT !.error = error, !.todo = <<>>]
        ELSE [w EXCEPT !.text = Append(@, type), !.todo = Files[format][type] \o Tail(@)]

Work == [text: Seq(Types), seen: SUBSET (Formats \X Types),
         error: {"none", "missing", "malformed"}, todo: Seq(Types)]

\* ... and on all it depends on.  A dependency that was met before is passed
\* over; the root itself is not among those.
AppendRecursive(format, root, seen) ==
    LET Walk[w \in Work] ==
            IF w.todo = <<>> THEN w
            ELSE LET key == Key(format, Head(w.todo))
                 IN  IF key \in w.seen THEN Walk[[w EXCEPT !.todo = Tail(@)]]
                     ELSE Walk[AppendOne(format, [w EXCEPT !.seen = @ \cup {key}])]
    IN  Walk[AppendOne(format, [text |-> <<>>, seen |-> seen, error |-> "none",
                                todo |-> <<root>>])]

\* get_full_text(): the .msg definitions or, when one of them does not exist,
\* all over again the .idl ones, with the same set of seen dependencies.
GetFullText(root) ==
    LET msg == AppendRecursive("msg", root, {})
    IN  IF msg.error # "missing"
        THEN [format |-> "msg", text |-> msg.text, error |-> msg.error]
        ELSE LET idl == AppendRecursive("idl", root, msg.seen)
             IN  [format |-> "idl", text |-> idl.text, error |-> idl.error]

\* The result for each type, as a constant.
FullText == [type \in Types |-> GetFullText(type)]
-----------------------------------------------------------------------------
\* The reference: everything that can be reached from the root in one format,
\* the least set that holds the root and what its members depend on.
Closed(format, S) == \A t \in S \cap DOMAIN Files[format] : ToSet(Files[format][t]) \subseteq S

Reachable == [format \in Formats |-> [root \in Types |->
    {t \in Types : \A S \in SUBSET Types : root \in S /\ Closed(format, S) => t \in S}]]

\* A definition depends on types, and not on itself, not even by way of others:
\* ROS generates no code for a message that contains itself.
ASSUME DefinitionAssumption ==
    /\ IsFiniteSet(Types)
    /\ \A format \in Formats : /\ DOMAIN Files[format] \subseteq Types
                               /\ \A t \in DOMAIN Files[format] : Files[format][t] \in Seq(Types)
    /\ \A format \in Formats, root \in Types :
           \A t \in Reachable[format][root] \cap DOMAIN Files[format] :
               root \notin ToSet(Files[format][t])

Complete(format, root) == Reachable[format][root] \subseteq DOMAIN Files[format] \ Malformed

\* What a text must be: of one format, everything reachable, nothing twice.
Describes(result, root) ==
    /\ Complete(result.format, root)
    /\ ToSet(result.text) = Reachable[result.format][root]
    /\ Head(result.text) = root
    /\ IsInjective(result.text)
=============================================================================
