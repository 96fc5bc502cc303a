------------------------------- MODULE Lists --------------------------------
(* The linked lists of include/linux/list.h: rings of next and prev         *)
(* pointers through a head, and hash chains of next and pprev pointers      *)
(* from a head with a single pointer.                                       *)
(*                                                                          *)
(* The pointers are one record; an operation of the header maps it to       *)
(* another one, assignment by assignment where two of them may touch the    *)
(* same field.  Next to the pointers stands what the comments of the header *)
(* say the lists hold, `lists' and `chains'.                                *)
EXTENDS Integers, SequencesExt

CONSTANTS
    Heads,       \* list heads (of rings and of chains)
    Nodes,       \* entries
    NULL,        \* the null pointer
    LIST_POISON  \* LIST_POISON1 and LIST_POISON2, which nothing may follow

ASSUME ListConstants ==
    /\ Heads \cap Nodes = {}
    /\ NULL \notin Heads \cup Nodes /\ LIST_POISON \notin Heads \cup Nodes
    /\ NULL # LIST_POISON

VARIABLES
    link,    \* [next, prev]: the pointers of the rings
    lists,   \* the entries of each ring, in order
    usable,  \* the heads that are initialised, and not left behind by splice
    idle,    \* the entries that list_del_init() left as rings of their own
    walk,    \* the iteration under way
    hlink,   \* [next, pprev] of the chains; next[h] is first of the head h,
             \* and pprev names the owner of the field it points to
    chains,  \* the entries of each chain, in order
    plain    \* the entries INIT_HLIST_NODE() has cleared

ringVars == <<link, lists, usable, idle, walk>>
chainVars == <<hlink, chains, plain>>
listVars == <<ringVars, chainVars>>

-----------------------------------------------------------------------------
INIT_LIST_HEAD(L, list) ==
    [L EXCEPT !.next[list] = list, !.prev[list] = list]

__list_add(L, new, prev, next) ==
    [L EXCEPT !.prev[next] = new, !.next[new] = next,
              !.prev[new] = prev, !.next[prev] = new]

list_add(L, new, head) == __list_add(L, new, head, L.next[head])
list_add_tail(L, new, head) == __list_add(L, new, L.prev[head], head)

__list_del(L, prev, next) ==
    [L EXCEPT !.prev[next] = prev, !.next[prev] = next]

list_del(L, entry) ==
    [__list_del(L, L.prev[entry], L.next[entry]) EXCEPT
        !.next[entry] = LIST_POISON, !.prev[entry] = LIST_POISON]

MutantReplaceAtOnce(L, old, new) ==
    [L EXCEPT !.next[new] = L.next[old], !.prev[new] = L.prev[old],
              !.prev[L.next[old]] = new, !.next[L.prev[old]] = new]

\* An empty head is a ring of itself, so each assignment may change what the
\* next one reads.
list_replace(L, old, new) ==
    LET L1 == [L EXCEPT !.next[new] = L.next[old]]
        L2 == [L1 EXCEPT !.prev[L1.next[new]] = new]
        L3 == [L2 EXCEPT !.prev[new] = L2.prev[old]]
    IN [L3 EXCEPT !.next[L3.prev[new]] = new]

list_replace_init(L, old, new) == INIT_LIST_HEAD(list_replace(L, old, new), old)

list_del_init(L, entry) ==
    INIT_LIST_HEAD(__list_del(L, L.prev[entry], L.next[entry]), entry)

list_move(L, list, head) ==
    list_add(__list_del(L, L.prev[list], L.next[list]), list, head)

list_move_tail(L, list, head) ==
    list_add_tail(__list_del(L, L.prev[list], L.next[list]), list, head)

list_is_last(L, list, head) == L.next[list] = head
list_empty(L, head) == L.next[head] = head
list_empty_careful(L, head) == L.next[head] = head /\ L.prev[head] = head
list_is_singular(L, head) == ~ list_empty(L, head) /\ L.next[head] = L.prev[head]

__list_cut_position(L, list, head, entry) ==
    LET new_first == L.next[entry]
        L1 == [L EXCEPT !.next[list] = L.next[head]]
        L2 == [L1 EXCEPT !.prev[L1.next[list]] = list, !.prev[list] = entry]
    IN [L2 EXCEPT !.next[entry] = list, !.next[head] = new_first,
                  !.prev[new_first] = head]

list_cut_position(L, list, head, entry) ==
    IF \/ list_empty(L, head)
       \/ list_is_singular(L, head) /\ L.next[head] # entry /\ head # entry
    THEN L
    ELSE IF entry = head THEN INIT_LIST_HEAD(L, list)
         ELSE __list_cut_position(L, list, head, entry)

__list_splice(L, list, prev, next) ==
    LET first == L.next[list]
        last == L.prev[list]
    IN [L EXCEPT !.prev[first] = prev, !.next[prev] = first,
                 !.next[last] = next, !.prev[next] = last]

list_splice(L, list, head) ==
    IF list_empty(L, list) THEN L ELSE __list_splice(L, list, head, L.next[head])

list_splice_tail(L, list, head) ==
    IF list_empty(L, list) THEN L ELSE __list_splice(L, list, L.prev[head], head)

list_splice_init(L, list, head) ==
    IF list_empty(L, list) THEN L
    ELSE INIT_LIST_HEAD(__list_splice(L, list, head, L.next[head]), list)

list_splice_tail_init(L, list, head) ==
    IF list_empty(L, list) THEN L
    ELSE INIT_LIST_HEAD(__list_splice(L, list, L.prev[head], head), list)

list_first_entry(L, head) == L.next[head]

-----------------------------------------------------------------------------
(* What the operations do to the lists.                                     *)

Linked == UNION {ToSet(lists[h]) : h \in Heads}
ListOf(n) == CHOOSE h \in Heads : n \in ToSet(lists[h])

\* The head or entry `at' and its place: 0 is the head itself.
Place(at) == IF at \in Heads THEN 0
             ELSE CHOOSE i \in DOMAIN lists[ListOf(at)] : lists[ListOf(at)][i] = at
RingOf(at) == IF at \in Heads THEN at ELSE ListOf(at)
Points == usable \cup Linked

Without(n) == IF n \in Linked THEN [lists EXCEPT ![ListOf(n)] = RemoveAt(@, Place(n))]
              ELSE lists

NoWalk == [pos |-> NULL]
Quiet == walk = NoWalk

Operation(linkNext, listsNext, usableNext, idleNext) ==
    /\ link' = linkNext
    /\ lists' = listsNext
    /\ usable' = usableNext
    /\ idle' = idleNext
    /\ UNCHANGED walk

InitHead(h) ==
    /\ Quiet
    /\ Operation(INIT_LIST_HEAD(link, h), [lists EXCEPT ![h] = <<>>],
                 usable \cup {h}, idle)

\* `at' is a head, or an entry the new one comes after (before, for the tail).
Add(n, at) ==
    /\ Quiet /\ n \notin Linked /\ at \in Points
    /\ \/ Operation(list_add(link, n, at),
                    [lists EXCEPT ![RingOf(at)] = InsertAt(@, Place(at) + 1, n)],
                    usable, idle \ {n})
       \/ Operation(list_add_tail(link, n, at),
                    [lists EXCEPT ![RingOf(at)] =
                        InsertAt(@, IF at \in Heads THEN Len(@) + 1 ELSE Place(at), n)],
                    usable, idle \ {n})

Delete(n) ==
    /\ Quiet /\ n \in Linked
    /\ Operation(list_del(link, n), Without(n), usable, idle)

\* Deleting what was deleted before is harmless in this form.
DeleteInit(n) ==
    /\ Quiet /\ n \in Linked \cup idle
    /\ Operation(list_del_init(link, n), Without(n), usable, idle \cup {n})

\* An entry takes the place of another one, or a head that of another head.
Replace(old, new) ==
    /\ Quiet
    /\ \/ /\ old \in Linked /\ new \in Nodes \ Linked
          /\ LET ls == [lists EXCEPT ![ListOf(old)][Place(old)] = new]
             IN \/ Operation(list_replace(link, old, new), ls, usable, idle \ {new})
                \/ Operation(list_replace_init(link, old, new), ls, usable,
                             (idle \cup {old}) \ {new})
       \/ /\ old \in usable /\ new \in Heads \ {old}
          /\ LET ls == [lists EXCEPT ![old] = <<>>, ![new] = lists[old]]
             IN \/ Operation(list_replace(link, old, new), ls,
                             (usable \ {old}) \cup {new}, idle)
                \/ Operation(list_replace_init(link, old, new), ls,
                             usable \cup {new}, idle)

Move(n, h) ==
    /\ Quiet /\ n \in Linked /\ h \in usable
    /\ \/ Operation(list_move(link, n, h),
                    [Without(n) EXCEPT ![h] = <<n>> \o @], usable, idle)
       \/ Operation(list_move_tail(link, n, h),
                    [Without(n) EXCEPT ![h] = Append(@, n)], usable, idle)

\* The entries of `list' up to now are given up, unless `head' is empty.
Cut(list, head, entry) ==
    /\ Quiet /\ list # head /\ {list, head} \subseteq usable
    /\ entry \in {head} \cup ToSet(lists[head])
    /\ LET cut == Place(entry)
       IN Operation(list_cut_position(link, list, head, entry),
                    IF lists[head] = <<>> THEN lists
                    ELSE [lists EXCEPT ![list] = SubSeq(lists[head], 1, cut),
                             ![head] = SubSeq(@, cut + 1, Len(@))],
                    usable, idle)

\* Without _init a list that was not empty may not be used afterwards.
Splice(list, head) ==
    /\ Quiet /\ list # head /\ {list, head} \subseteq usable
    /\ LET front == [lists EXCEPT ![list] = <<>>, ![head] = lists[list] \o @]
           back == [lists EXCEPT ![list] = <<>>, ![head] = @ \o lists[list]]
           left == IF lists[list] = <<>> THEN usable ELSE usable \ {list}
       IN \/ Operation(list_splice(link, list, head), front, left, idle)
          \/ Operation(list_splice_tail(link, list, head), back, left, idle)
          \/ Operation(list_splice_init(link, list, head), front, usable, idle)
          \/ Operation(list_splice_tail_init(link, list, head), back, usable, idle)

-----------------------------------------------------------------------------
(* The iterations that are safe against the removal of the entry they are   *)
(* at: pos is the entry, and n the one to visit next.  dir is the pointer   *)
(* they follow.  A walk starts at the head, or goes on after or from an     *)
(* entry (the forms continue and from).                                     *)

WalkStart(h, dir, at, from) ==
    /\ Quiet /\ h \in usable /\ at \in {h} \cup ToSet(lists[h])
    /\ from => at # h
    /\ LET pos == IF from THEN at ELSE link[dir][at]
           order == IF dir = "next" THEN lists[h] ELSE Reverse(lists[h])
           skip == IF at = h THEN 0
                   ELSE (CHOOSE i \in DOMAIN order : order[i] = at)
                        - (IF from THEN 1 ELSE 0)
       IN walk' = [head |-> h, dir |-> dir, pos |-> pos, n |-> link[dir][pos],
                   seen |-> <<>>, want |-> SubSeq(order, skip + 1, Len(order))]
    /\ UNCHANGED <<link, lists, usable, idle>>

MutantReadAfter(linkNext) ==
    walk' = [walk EXCEPT !.pos = linkNext[walk.dir][walk.pos],
                         !.n = linkNext[walk.dir][walk.n],
                         !.seen = Append(@, walk.pos)]

\* What the body of the loop does with its entry, and the step to the next.
AfterBody(linkNext) ==
    walk' = [walk EXCEPT !.pos = walk.n, !.n = linkNext[walk.dir][walk.n],
                         !.seen = Append(@, walk.pos)]

WalkStep ==
    /\ walk # NoWalk /\ walk.pos # walk.head
    /\ \/ UNCHANGED <<link, lists, usable, idle>>
       \/ /\ link' = list_del(link, walk.pos)
          /\ lists' = Without(walk.pos)
          /\ UNCHANGED <<usable, idle>>
       \/ \E h \in usable \ {walk.head} :
             /\ link' = list_move_tail(link, walk.pos, h)
             /\ lists' = [Without(walk.pos) EXCEPT ![h] = Append(@, walk.pos)]
             /\ UNCHANGED <<usable, idle>>
    /\ AfterBody(link')

WalkEnd ==
    /\ walk # NoWalk /\ walk.pos = walk.head
    /\ walk' = NoWalk
    /\ UNCHANGED <<link, lists, usable, idle>>

-----------------------------------------------------------------------------
(* Chains.                                                                  *)

INIT_HLIST_NODE(L, h) == [L EXCEPT !.next[h] = NULL, !.pprev[h] = NULL]

hlist_unhashed(L, h) == L.pprev[h] = NULL
hlist_empty(L, h) == L.next[h] = NULL

__hlist_del(L, n) ==
    LET next == L.next[n]
        M == [L EXCEPT !.next[L.pprev[n]] = next]
    IN IF next = NULL THEN M ELSE [M EXCEPT !.pprev[next] = L.pprev[n]]

hlist_del(L, n) ==
    [__hlist_del(L, n) EXCEPT !.next[n] = LIST_POISON, !.pprev[n] = LIST_POISON]

hlist_del_init(L, n) ==
    IF hlist_unhashed(L, n) THEN L ELSE INIT_HLIST_NODE(__hlist_del(L, n), n)

hlist_add_head(L, n, h) ==
    LET first == L.next[h]
        M == [L EXCEPT !.next[n] = first, !.next[h] = n, !.pprev[n] = h]
    IN IF first = NULL THEN M ELSE [M EXCEPT !.pprev[first] = n]

hlist_add_before(L, n, next) ==
    LET M == [L EXCEPT !.pprev[n] = L.pprev[next], !.next[n] = next, !.pprev[next] = n]
    IN [M EXCEPT !.next[M.pprev[n]] = n]

hlist_add_after(L, n, next) ==
    LET M == [L EXCEPT !.next[next] = L.next[n], !.next[n] = next, !.pprev[next] = n]
    IN IF M.next[next] = NULL THEN M ELSE [M EXCEPT !.pprev[M.next[next]] = next]

Chained == UNION {ToSet(chains[h]) : h \in Heads}
Chain(n) == CHOOSE h \in Heads : n \in ToSet(chains[h])
ChainPlace(n) == CHOOSE i \in DOMAIN chains[Chain(n)] : chains[Chain(n)][i] = n

HInitNode(n) ==
    /\ n \notin Chained
    /\ hlink' = INIT_HLIST_NODE(hlink, n)
    /\ plain' = plain \cup {n}
    /\ UNCHANGED chains

HAdd(n) ==
    /\ n \notin Chained
    /\ \/ \E h \in Heads :
             /\ hlink' = hlist_add_head(hlink, n, h)
             /\ chains' = [chains EXCEPT ![h] = <<n>> \o @]
       \/ \E next \in Chained :
             /\ hlink' = hlist_add_before(hlink, n, next)
             /\ chains' = [chains EXCEPT ![Chain(next)] = InsertAt(@, ChainPlace(next), n)]
       \/ \E at \in Chained :
             /\ hlink' = hlist_add_after(hlink, at, n)
             /\ chains' = [chains EXCEPT ![Chain(at)] = InsertAt(@, ChainPlace(at) + 1, n)]
    /\ plain' = plain \ {n}

HDelete(n) ==
    /\ \/ n \in Chained /\ hlink' = hlist_del(hlink, n) /\ plain' = plain
       \/ n \in Chained \cup plain /\ hlink' = hlist_del_init(hlink, n)
          /\ plain' = plain \cup {n}
    /\ chains' = IF n \in Chained
                 THEN [chains EXCEPT ![Chain(n)] = RemoveAt(@, ChainPlace(n))]
                 ELSE chains

-----------------------------------------------------------------------------
ListsInit ==
    /\ link = [next |-> [x \in Heads \cup Nodes |-> LIST_POISON],
               prev |-> [x \in Heads \cup Nodes |-> LIST_POISON]]
    /\ lists = [h \in Heads |-> <<>>]
    /\ usable = {} /\ idle = {} /\ walk = NoWalk
    /\ hlink = [next |-> [x \in Heads \cup Nodes |->
                             IF x \in Heads THEN NULL ELSE LIST_POISON],
                pprev |-> [x \in Nodes |-> LIST_POISON]]
    /\ chains = [h \in Heads |-> <<>>]
    /\ plain = {}

RingsNext ==
    \/ \E h \in Heads : InitHead(h)
    \/ \E n \in Nodes : Delete(n) \/ DeleteInit(n)
    \/ \E n \in Nodes, at \in Heads \cup Nodes : Add(n, at)
    \/ \E n \in Nodes, h \in Heads : Move(n, h)
    \/ \E old, new \in Heads \cup Nodes : Replace(old, new)
    \/ \E list, head \in Heads : Splice(list, head)
    \/ \E list, head \in Heads, entry \in Heads \cup Nodes : Cut(list, head, entry)
    \/ \E h \in Heads, dir \in {"next", "prev"}, at \in Heads \cup Nodes,
          from \in BOOLEAN : WalkStart(h, dir, at, from)
    \/ WalkStep
    \/ WalkEnd

ChainsNext == \E n \in Nodes : HInitNode(n) \/ HAdd(n) \/ HDelete(n)

ListsNext == \/ RingsNext /\ UNCHANGED chainVars
             \/ ChainsNext /\ UNCHANGED ringVars

ListsSpec == ListsInit /\ [][ListsNext]_listVars

-----------------------------------------------------------------------------
(* What the ring of h with the entries s has at place i: the head is before *)
(* the first entry and after the last one.                                  *)
RingAt(h, s, i) == IF i \in DOMAIN s THEN s[i] ELSE h

Ring(L, h, s) ==
    \A i \in 0 .. Len(s) : /\ L.next[RingAt(h, s, i)] = RingAt(h, s, i + 1)
                          /\ L.prev[RingAt(h, s, i + 1)] = RingAt(h, s, i)

\* From every usable head the next pointers visit the entries of its list in
\* order and come back to it, and the prev pointers visit them backwards,
\* whatever operations of list.h have run before (on heads that were empty,
\* on entries next to each other, on lists that were cut or joined).
RingsHold == \A h \in usable : Ring(link, h, lists[h])

\* list_empty(), list_empty_careful(), list_is_singular(), list_is_last() and
\* list_first_entry() answer for the list as it is; list_empty() of an entry
\* holds after list_del_init() and not while it is in a list.
QueriesHold ==
    /\ \A h \in usable :
          /\ list_empty(link, h) <=> lists[h] = <<>>
          /\ list_empty_careful(link, h) <=> lists[h] = <<>>
          /\ list_is_singular(link, h) <=> Len(lists[h]) = 1
          /\ lists[h] # <<>> => list_first_entry(link, h) = Head(lists[h])
          /\ \A n \in ToSet(lists[h]) :
                list_is_last(link, n, h) <=> n = Last(lists[h])
    /\ \A n \in idle : list_empty_careful(link, n)
    /\ \A n \in Linked : ~ list_empty(link, n)

\* An iteration whose body removes or moves away the entry it is at never
\* follows a poisoned pointer, and ends when it has visited exactly the
\* entries that were there when it began, in order.
WalkSeesAll ==
    walk # NoWalk =>
        /\ walk.pos \in {walk.head} \cup Nodes
        /\ walk.seen = SubSeq(walk.want, 1, Len(walk.seen))
        /\ walk.pos = walk.head => walk.seen = walk.want

(* What the chain of h has at place i: nothing after the last entry.        *)
ChainAt(h, s, i) == IF i = 0 THEN h ELSE IF i \in DOMAIN s THEN s[i] ELSE NULL

\* The chain of a head has its entries in order, the pprev of each points to
\* the field that points to it, and only the entries INIT_HLIST_NODE() has
\* cleared are unhashed.
ChainsHold ==
    /\ \A h \in Heads : \A i \in 0 .. Len(chains[h]) :
          hlink.next[ChainAt(h, chains[h], i)] = ChainAt(h, chains[h], i + 1)
    /\ \A h \in Heads : \A i \in DOMAIN chains[h] :
          hlink.pprev[chains[h][i]] = ChainAt(h, chains[h], i - 1)
    /\ \A n \in Nodes : hlist_unhashed(hlink, n) <=> n \in plain
    /\ \A h \in Heads : hlist_empty(hlink, h) <=> chains[h] = <<>>

\* Rings, chains and the questions list.h answers about them agree with the
\* lists the operations should have made, after any sequence of operations.
ListsHold == RingsHold /\ QueriesHold /\ ChainsHold
=============================================================================
