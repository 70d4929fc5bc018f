--------------------------- MODULE MCNotionComments ---------------------------
(* Two connections, and comments that name one agent or follow up on another. *)
EXTENDS NotionComments

CONSTANTS c1, c2, c3, a, b, d

\* The first and the last comment name an agent; the one between them does not.
Address == [c \in Comment |-> IF c = c1 THEN a ELSE IF c = c3 THEN b ELSE None]

\* One discussion holds them all.
Thread == [c \in Comment |-> d]

=============================================================================
