------------------------------- MODULE Trees --------------------------------
(***************************************************************************)
(* Parse trees as the passes behind the parser see them.  A node is named  *)
(* by its path: the numbers of the children on the way to it from the      *)
(* root.  A token is abstracted to its name or its operator.               *)
(***************************************************************************)
EXTENDS Naturals, Sequences, SequencesExt, Functions

Node(kind, token, children) == [kind |-> kind, token |-> token, children |-> children]

NodeAt(root, path) ==
  LET At[n \in 0..Len(path)] == IF n = 0 THEN root ELSE At[n - 1].children[path[n]]
  IN  At[Len(path)]

Child(path, i) == Append(path, i)
Parent(path)   == Front(path)

\* ParseNode::GetPathToRoot, as a set: the node itself is one of them.
PathToRoot(path) == Prefixes(path)

Innermost(paths) == CHOOSE p \in paths : \A q \in paths : Len(q) <= Len(p)

\* The children whose Accept calls Visit, and not VisitEnter and VisitLeave.
LeafKinds == {"identifier", "bool", "char", "int", "float", "string", "base type", "nop"}

Expressions == {"identifier", "bool", "char", "int", "float", "string", "operator",
                "invocation", "lambda", "alloc", "array"}

\* f, with v at x.
With(f, x, v) == [y \in DOMAIN f \cup {x} |-> IF y = x THEN v ELSE f[y]]

-----------------------------------------------------------------------------
(* The order of a visitor: VisitEnter, the children in their order, then   *)
(* VisitLeave.                                                             *)

Cursor(path, moment) == [path |-> path, moment |-> moment]

Start(root, path) ==
  Cursor(path, IF NodeAt(root, path).kind \in LeafKinds THEN "visit" ELSE "enter")

\* The call behind the one at the cursor; none is behind leaving the root.
Following(root, cursor) ==
  LET path == cursor.path
  IN  IF cursor.moment = "enter" /\ NodeAt(root, path).children # <<>>
      THEN Start(root, Child(path, 1))
      ELSE IF cursor.moment = "enter" THEN Cursor(path, "leave")
      ELSE IF Last(path) < Len(NodeAt(root, Parent(path)).children)
      THEN Start(root, Child(Parent(path), Last(path) + 1))
      ELSE Cursor(Parent(path), "leave")

-----------------------------------------------------------------------------
(* Whether all control paths of a statement return.                        *)

\* CodeBlockNode:: and IfStatementNode::DoAllControlPathsReturn, at a path.
DoAllControlPathsReturn(root, path) ==
  LET Returns[p \in Seq(Nat)] ==
        LET node == NodeAt(root, p)
            last == Len(node.children)
        IN  \/ node.kind = "return"
            \/ /\ node.kind = "block"
               /\ \/ \E i \in 1..last : node.children[i].kind = "return"
                  \/ last > 0 /\ Returns[Child(p, last)]
            \/ /\ node.kind = "if"
               /\ Returns[Child(p, 2)]
               /\ last = 3 => Returns[Child(p, 3)]
  IN  Returns[path]
=============================================================================
