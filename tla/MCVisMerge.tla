----------------------------- MODULE MCVisMerge -----------------------------
(* Model-checking instances of VisMerge: a component A holds B, B holds C and C
   holds D, which shows text; they are sent one by one, one in another, two at a
   time, again, and D twice in one markdown. *)
EXTENDS VisMerge

CONSTANTS A, B, C, D, T, U

Leaf(u, v, p) == [uid |-> u, ver |-> v, all |-> FALSE, dyn |-> Null, parent |-> p,
                  markdown |-> <<>>, items |-> <<>>]

InMarkdown(x, y) == [x EXCEPT !.markdown = Append(@, y)]
InItems(x, y) == [x EXCEPT !.items = <<y>>]
Whole(x) == [x EXCEPT !.all = TRUE]
Dynamic(x) == [x EXCEPT !.dyn = TRUE]

Streamed == InMarkdown(Leaf(D, Null, C), T)
Final == Whole(InMarkdown(Leaf(D, 1, C), U))

Bare == { Leaf(A, 1, None), Leaf(B, 1, A), Leaf(B, 2, A), Leaf(C, 2, B) }

Written == { Streamed, Dynamic(Streamed), Final }

Holding == { InMarkdown(Leaf(A, 1, None), Leaf(B, 1, A)), InItems(Leaf(A, Null, None), Leaf(B, 1, A)),
             InMarkdown(InMarkdown(Leaf(B, 1, A), T), Leaf(C, 1, B)), InItems(Leaf(B, Null, A), Leaf(C, 1, B)),
             InMarkdown(InMarkdown(Leaf(C, 1, B), Streamed), Final),
             Whole(InMarkdown(Leaf(A, 1, None), Leaf(B, 2, A))) }

Sent == Bare \cup Written \cup Holding

MCChunks == {<<x>> : x \in Sent} \cup {p \in Sent \X Sent : p[1].uid # p[2].uid}
            \cup {<<Leaf(C, 1, B), Leaf(C, 2, B)>>}

(* Text is streamed without end, and a component brought at another place is
   shown there too: the bounds of the states that are explored. *)
CONSTANTS MaxCopies, MaxTexts

Small(d) ==
    /\ Len(Copies(d)) <= MaxCopies
    /\ \A c \in Shown(d) : Cardinality({i \in DOMAIN c.markdown : c.markdown[i] \in Texts}) <= MaxTexts
    /\ HoldersOnce(d)

MCNext == (\E chunk \in Chunks : Update(chunk) /\ Small(doc')) \/ Clear

MCSpec == Init /\ [][MCNext]_vars
=============================================================================
