------------------------------ MODULE VisMerge ------------------------------
(***************************************************************************)
(* The merge of streamed chunks into the document a chat turn shows        *)
(* (web/src/utils/parse-vis.ts, VisBaseParser).                            *)
(*                                                                         *)
(* The document is a sequence of components and plain texts.  The value of *)
(* a component is JSON text, and what is inside it, in its markdown or its *)
(* items, is text inside that text.  The index that finds a component by   *)
(* its uid is rebuilt after every chunk; for an inner component it points  *)
(* at a copy parsed from the text, so a change to the copy reaches the     *)
(* document only if it is written back into every text around it.          *)
(*                                                                         *)
(* The fields of a component other than uid, parent_uid, type, dynamic,    *)
(* markdown and items are abstracted: ver stands for all those fields.     *)
(***************************************************************************)
EXTENDS Naturals, Sequences, SequencesExt, FiniteSetsExt

CONSTANTS
    Uids,    \* uids of components
    Texts,   \* pieces of plain text, without a code fence
    None,    \* no parent_uid
    Null,    \* fields that are null, or missing, in a chunk
    Chunks   \* what may be received: sequences of components and texts

VARIABLE doc  \* astRoot.children

vars == <<doc>>

Components(s) == SelectSeq(s, LAMBDA b : b \notin Texts)

IsText(s) == ToSet(s) \subseteq Texts

RECURSIVE Inside(_)
Inside(c) == {c} \cup UNION {Inside(x) : x \in ToSet(Components(c.markdown)) \cup ToSet(c.items)}

Shown(d) == UNION {Inside(c) : c \in ToSet(Components(d))}

ShownUids(d) == {c.uid : c \in Shown(d)}

(* A component as a chunk has it: all is type = 'all', dyn is dynamic. *)
IsComponent(c) ==
    /\ c.uid \in Uids /\ c.all \in BOOLEAN /\ c.dyn \in BOOLEAN \cup {Null}
    /\ c.parent \in Uids \cup {None} /\ c.ver \in Nat \cup {Null}

ASSUME ChunksAssumption ==
    \A chunk \in Chunks : chunk # <<>> /\ \A c \in Shown(chunk) : IsComponent(c)

(* A dynamic component shows text and nothing else. *)
ASSUME DynamicAssumption ==
    \A x, y \in UNION {Shown(chunk) : chunk \in Chunks} :
        x.dyn = TRUE => (y.uid = x.uid => IsText(y.markdown)) /\ y.parent # x.uid

Init == doc = <<>>
-----------------------------------------------------------------------------
(* Merging two values. *)

At(s, u) == {i \in DOMAIN s : s[i] \notin Texts /\ s[i].uid = u}

Has(s, u) == At(s, u) # {}

(* What incr has and base has not, each copy of it. *)
Unknown(base, incr) == SelectSeq(Components(incr), LAMBDA c : ~Has(base, c.uid))

RECURSIVE CombineVisItem(_, _), CombineMarkdown(_, _), CombineItems(_, _)

(* Bug: null overwrites. *)
CombineVisItemNull(base, incr) ==
    [base EXCEPT
        !.ver = incr.ver,
        !.dyn = IF incr.dyn = Null THEN @ ELSE incr.dyn,
        !.markdown = IF incr.all /\ incr.markdown # <<>> THEN incr.markdown
                     ELSE IF base.dyn = TRUE THEN @ \o incr.markdown ELSE CombineMarkdown(@, incr.markdown),
        !.items = IF incr.all /\ incr.items # <<>> THEN incr.items ELSE CombineItems(@, incr.items)]

(* combineVisItem: null and missing fields keep what there was; 'all' replaces
   a list by one that is not empty; a dynamic component has its text appended.
   The type and the parent_uid of a stored component are never read. *)
CombineVisItem(base, incr) ==
    [base EXCEPT
        !.ver = IF incr.ver = Null THEN @ ELSE incr.ver,
        !.dyn = IF incr.dyn = Null THEN @ ELSE incr.dyn,
        !.markdown = IF incr.all /\ incr.markdown # <<>> THEN incr.markdown
                     ELSE IF base.dyn = TRUE THEN @ \o incr.markdown ELSE CombineMarkdown(@, incr.markdown),
        !.items = IF incr.all /\ incr.items # <<>> THEN incr.items ELSE CombineItems(@, incr.items)]

(* Bug: replaces what is there. *)
CombineMarkdownReplaces(base, incr) == IF incr = <<>> THEN base ELSE incr

(* Bug: appends without looking at uids. *)
CombineMarkdownAppends(base, incr) == base \o incr

(* combineMarkdownString: text is appended to text; beside a component only
   components count, the last of a uid in base being merged with the last of
   that uid in incr. *)
CombineMarkdown(base, incr) ==
    CASE incr = <<>> -> base
      [] incr # <<>> /\ base = <<>> -> incr
      [] incr # <<>> /\ base # <<>> /\ IsText(base \o incr) -> base \o incr
      [] OTHER ->
            [i \in DOMAIN base |->
                IF \E u \in Uids : Has(incr, u) /\ At(base, u) # {} /\ i = Max(At(base, u))
                THEN CombineVisItem(base[i], incr[Max(At(incr, base[i].uid))])
                ELSE base[i]]
            \o Unknown(base, incr)

(* combineItems: every item of a uid in base is merged with the last in incr. *)
CombineItems(base, incr) ==
    [i \in DOMAIN base |->
        IF Has(incr, base[i].uid) THEN CombineVisItem(base[i], incr[Max(At(incr, base[i].uid))]) ELSE base[i]]
    \o Unknown(base, incr)
-----------------------------------------------------------------------------
(* The index.  A place is the way from the roots to a component: one step for
   each component around it, into its markdown or its items.  What stands at a
   place is a copy parsed from the text around it, but for the roots.  A uid
   that is already on the way is skipped. *)

Into(part, i) == [part |-> part, at |-> i]

Part(place) == Last(place).part
Host(place) == Front(place)

(* The component around it is a node of a tree, whose text can be rewritten,
   and not an object of an items array. *)
InNode(place) == Len(place) > 1 /\ Part(Host(place)) # "items"

RECURSIVE IndexOf(_, _, _), IndexList(_, _, _, _)

IndexOf(c, place, path) ==
    IF c \in Texts \/ c.uid \in path THEN <<>>
    ELSE LET inItems == IndexList(c.items, "items", place, path \cup {c.uid})
             inMarkdown == IndexList(c.markdown, "markdown", place, path \cup {c.uid})
         IN  <<[uid |-> c.uid, place |-> place, value |-> c]>>
             \o (IF Part(place) = "roots" THEN inItems \o inMarkdown ELSE inMarkdown \o inItems)

IndexList(s, part, place, path) ==
    FlattenSeq([i \in DOMAIN s |-> IndexOf(s[i], Append(place, Into(part, i)), path)])

(* rebuildIndex: found has the place indexed last for a uid, node the
   component at a place. *)
RebuildIndex(d) ==
    LET all == IndexList(d, "roots", <<>>, {})
    IN  [found |-> [u \in {all[i].uid : i \in DOMAIN all} |->
                        all[Max({i \in DOMAIN all : all[i].uid = u})].place],
         node  |-> [p \in {all[i].place : i \in DOMAIN all} |->
                        all[CHOOSE i \in DOMAIN all : all[i].place = p].value]]

Found(ix) == DOMAIN ix.found

Put(ix, place, c) == [ix EXCEPT !.node[place] = c]

(* The item of place is replaced in its host, and in what shares that object:
   an item of an item is one object with what its host's host holds. *)
RECURSIVE SetItem(_, _, _)
SetItem(ix, place, c) ==
    LET h == Host(place)
        host == [ix.node[h] EXCEPT
            !.items = IF Last(place).at \in DOMAIN @ THEN [@ EXCEPT ![Last(place).at] = c] ELSE @]
    IN  IF Part(h) = "items" /\ ~InNode(h) THEN SetItem(Put(ix, h, host), h, host)
                                            ELSE Put(ix, h, host)

InList(s, c) == [i \in DOMAIN s |-> IF i \in At(s, c.uid) THEN c ELSE s[i]]

RECURSIVE UpdateNestedNodeInHost(_, _, _)

(* Bug: the hosts further out are not told. *)
UpdateNearestHost(ix, place, merged) ==
    LET h == Host(place) IN
    IF InNode(place) /\ Has(ix.node[h].markdown, merged.uid)
    THEN Put(ix, h, [ix.node[h] EXCEPT !.markdown = InList(@, merged)])
    ELSE Put(ix, place, merged)

(* The text of the host is rewritten, and then that of the host's own host;
   the copy that was found is rewritten only when there is no such text. *)
UpdateNestedNodeInHost(ix, place, merged) ==
    LET h == Host(place) IN
    IF InNode(place) /\ Has(ix.node[h].markdown, merged.uid)
    THEN LET host == [ix.node[h] EXCEPT !.markdown = InList(@, merged)]
             outer == ix.found[host.uid]
         IN  IF Part(outer) = "markdown" THEN UpdateNestedNodeInHost(Put(ix, h, host), outer, host)
                                         ELSE Put(ix, h, host)
    ELSE Put(ix, place, merged)

(* mergeExistingNode. *)
MergeExistingNode(ix, incr) ==
    LET place == ix.found[incr.uid]
        merged == CombineVisItem(ix.node[place], incr)
    IN  CASE Part(place) = "roots"    -> Put(ix, place, merged)
          [] Part(place) = "markdown" -> UpdateNestedNodeInHost(ix, place, merged)
          [] Part(place) = "items"    -> Put(SetItem(ix, place, merged), place, merged)

(* mountToParentMarkdown: only an item is written back into its host. *)
MountToParentMarkdown(ix, new) ==
    LET place == ix.found[new.parent]
        parent == [ix.node[place] EXCEPT !.markdown = @ \o <<new>>]
    IN  IF Part(place) = "items" THEN Put(SetItem(ix, place, parent), place, parent)
                                 ELSE Put(ix, place, parent)

(* One component of a chunk: merged where it is, or mounted under its parent,
   or appended to the roots, unindexed until the chunk is merged. *)
MergeOne(st, incr) ==
    CASE incr.uid \in Found(st.ix) -> [st EXCEPT !.ix = MergeExistingNode(@, incr)]
      [] incr.uid \notin Found(st.ix) /\ incr.parent \in Found(st.ix) ->
            [st EXCEPT !.ix = MountToParentMarkdown(@, incr)]
      [] OTHER -> [st EXCEPT !.added = Append(@, incr)]

(* mergeIncrementalChunk: ix is the index of d; text of the chunk that is in no
   component is not read. *)
MergeIncrementalChunk(ix, d, chunk) ==
    LET st == FoldLeft(MergeOne, [ix |-> ix, added |-> <<>>], Components(chunk))
    IN  [i \in DOMAIN d |-> IF d[i] \in Texts THEN d[i] ELSE st.ix.node[<<Into("roots", i)>>]] \o st.added

(* updateCurrentMarkdown: the first chunk is the document. *)
Merged(d, chunk) == IF d = <<>> THEN chunk ELSE MergeIncrementalChunk(RebuildIndex(d), d, chunk)

Update(chunk) == doc' = Merged(doc, chunk)

(* An empty string clears the document, as destroy does. *)
Clear == doc' = <<>>

Next == (\E chunk \in Chunks : Update(chunk)) \/ Clear

Spec == Init /\ [][Next]_vars
-----------------------------------------------------------------------------
(* What a merge wrote reaches the document from: a root, the markdown of a
   node that itself does, an item of a root. *)
RECURSIVE WrittenBack(_)
WrittenBack(place) ==
    CASE Part(place) = "roots"    -> TRUE
      [] Part(place) = "markdown" -> InNode(place) /\ WrittenBack(Host(place))
      [] Part(place) = "items"    -> Len(place) = 2

(* ... and what was mounted: a root, an item of a root. *)
Mountable(place) == Part(place) = "roots" \/ (Part(place) = "items" /\ Len(place) = 2)

Ver(c, old) == IF c.ver = Null THEN old ELSE c.ver

(* Where components stand: in what, in which part, which. *)
Holds(x) == {<<x.uid, "markdown", y.uid>> : y \in ToSet(Components(x.markdown))}
            \cup {<<x.uid, "items", y.uid>> : y \in ToSet(x.items)}

Places(d) == {<<None, "roots", c.uid>> : c \in ToSet(Components(d))} \cup UNION {Holds(x) : x \in Shown(d)}

(* The components of a document, each copy by itself, and their numbers. *)
RECURSIVE Copies(_)
Copies(s) == FlattenSeq([i \in DOMAIN s |->
    IF s[i] \in Texts THEN <<>> ELSE <<s[i]>> \o Copies(s[i].markdown) \o Copies(s[i].items)])

Counts(s) == LET all == Copies(s) IN [u \in Uids \cup {None} |-> Cardinality(At(all, u))]

(* What holds another component is shown once. *)
HoldersOnce(d) == LET n == Counts(d) IN \A x \in Shown(d) : Holds(x) # {} => n[x.uid] = 1

Incremental(chunk) == \A c \in Shown(chunk) : ~c.all

(* What the chunk shows inside a component is where the document has it, if it
   does; places are those of the document. *)
InPlace(places, chunk) ==
    \A p \in Places(chunk) : p[1] # None /\ p \notin places => \A q \in places : p[3] # q[3]

(* No increment takes a component away, whatever stale copies the components of
   one chunk leave behind for each other; and nothing is shown once more that was
   shown, if the chunk shows it once and in place, and the document had what the
   chunk shows, and its parents, at most once. *)
NothingVanishes ==
    HoldersOnce(doc) =>
        LET places == Places(doc)
            n == Counts(doc)
        IN  \A chunk \in Chunks :
                LET d == Merged(doc, chunk)
                IN  /\ Incremental(chunk) => ShownUids(doc) \subseteq ShownUids(d)
                    /\ /\ InPlace(places, chunk)
                       /\ \A x \in Shown(chunk) : n[x.uid] <= 1 /\ n[x.parent] <= 1
                       /\ \A u \in Uids : Counts(chunk)[u] <= 1
                       => \A u \in Uids : Counts(d)[u] <= Max({1, n[u]})

(* Where the merge of a component begins: where it stands, or its parent. *)
Target(ix, c) ==
    IF c.uid \in Found(ix) THEN ix.found[c.uid]
    ELSE IF c.parent \in Found(ix) THEN ix.found[c.parent] ELSE <<>>

(* The change a component alone makes reaches the document. *)
Reaches(ix, c) == LET t == Target(ix, c) IN
    t = <<>> \/ (IF c.uid \in Found(ix) THEN WrittenBack(t) ELSE Mountable(t))

(* What x and y share is not at stake when y comes after x in a chunk: they show
   different components; y does not begin inside x, which is read as the index
   knew it before the chunk; it is no new child of what x brings; and around x it
   stands only if the change of x reaches the document, and does not replace it. *)
Apart(ix, x, y) ==
    /\ ShownUids(<<x>>) \cap ShownUids(<<y>>) = {}
    /\ x.uid \in Found(ix) => ~IsPrefix(ix.found[x.uid], Target(ix, y))
    /\ y.parent \in ShownUids(<<x>>) => y.parent \in Found(ix)
    /\ Target(ix, y) # <<>> /\ IsPrefix(Target(ix, y), Target(ix, x)) => Reaches(ix, x) /\ ~y.all

(* The chunks whose components do not meet, in a document where what holds another
   is shown once. *)
Plain ==
    LET ix == RebuildIndex(doc)
        places == Places(doc)
    IN  {chunk \in Chunks :
            /\ doc # <<>> /\ HoldersOnce(doc)
            /\ InPlace(places, chunk)
            /\ \A i, j \in DOMAIN Components(chunk) :
                    i < j => Apart(ix, Components(chunk)[i], Components(chunk)[j])}

(* What is left of a document without its text. *)
RECURSIVE Shape(_)
Shape(s) == [i \in DOMAIN Components(s) |->
    LET c == Components(s)[i] IN [c EXCEPT !.markdown = Shape(@), !.items = Shape(@)]]

(* Text that is to be appended. *)
Streams(chunk) == \E c \in Shown(chunk) : ~c.all /\ ToSet(c.markdown) \cap Texts # {}

(* A chunk delivered twice changes nothing the second time but the text that it
   streams, which is appended again. *)
Redelivery ==
    \A chunk \in Plain :
        LET d == Merged(doc, chunk)
            again == Merged(d, chunk)
        IN  IF Streams(chunk) THEN Shape(again) = Shape(d) ELSE again = d

(* A component that is shown gets the fields sent for it, however deep it is
   in markdown, null fields keeping what it has, and the text streamed to it
   after the text it has; a new one is shown in the markdown of its parent when
   that is a root or an item of a root. *)
MergesLand ==
    HoldersOnce(doc) =>
    LET ix == RebuildIndex(doc)
    IN  \A chunk \in {k \in Chunks : Len(k) = 1 /\ k[1] \notin Texts} :
            LET c == chunk[1]
                old == ix.node[ix.found[c.uid]]
                d == Merged(doc, chunk)
            IN  /\ c.uid \in Found(ix) /\ WrittenBack(ix.found[c.uid]) =>
                     \E x \in Shown(d) :
                        /\ x.uid = c.uid /\ x.ver = Ver(c, old.ver)
                        /\ ~c.all /\ IsText(old.markdown \o c.markdown) =>
                                x.markdown = old.markdown \o c.markdown
                /\ c.uid \notin Found(ix) /\ c.parent \in Found(ix) /\ Mountable(ix.found[c.parent]) =>
                     \E x \in Shown(d) : x.uid = c.parent /\ c \in ToSet(x.markdown)

(* Two components in one chunk do what they do in two chunks. *)
Batching ==
    \A chunk \in {k \in Plain : Len(k) = 2} :
        Merged(doc, chunk) = Merged(Merged(doc, <<chunk[1]>>), <<chunk[2]>>)
=============================================================================
