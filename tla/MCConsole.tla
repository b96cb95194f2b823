----------------------------- MODULE MCConsole ------------------------------
(* Every page of both consoles with two settings of its controls, and      *)
(* three calls on their way at once.  The settings are interchangeable,    *)
(* and the places of the calls.                                            *)
EXTENDS LegacyPanels

CONSTANTS q1, q2, s1, s2, s3

\* Bounds: a panel of the old console has two calls on their way, and its first
\* session is an admin's; anybody may sign in after that, when one whose text
\* fields double its settings has one call on its way.
PanelBounds ==
    P.stays =>
        /\ \E s \in Slots : calls[s] = Free
        /\ signIns = 0 => role = "admin"
        /\ signIns > 0 /\ "typed" \in P.fields =>
              Cardinality({s \in Slots : calls[s] # Free}) <= 1

MCPages == Views @@ Panels

Alike == {p @@ q : p \in Permutations({q1, q2}), q \in Permutations({s1, s2, s3})}

=============================================================================
