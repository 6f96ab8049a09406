----------------------------- MODULE RoutingTable -----------------------------
(* The allowed-IPs table: a path-compressed binary trie per address family *)
(* (trie.go) behind one lock (routing.go), against the list of routes it   *)
(* stands for.  An address is a sequence of bits.                          *)
EXTENDS Naturals, Sequences, Functions, FiniteSetsExt

CONSTANTS Peer,
          Nil,
          Family,        \* address families
          Width,         \* Width[f]: bits of an address of family f
          Removable,     \* peers that RemovePeer is called for
          MaxRoutes      \* bound: routes in the table

VARIABLES table,         \* the trie of each family
          routes         \* history: the routes the calls so far amount to

vars == <<table, routes>>

Address(f) == [1..Width[f] -> {0, 1}]

Prefix(f) == UNION {[1..k -> {0, 1}] : k \in 0..Width[f]}

\* net.ParseCIDR masks the host bits.
Masked(f, pre) == [k \in 1..Width[f] |-> IF k <= Len(pre) THEN pre[k] ELSE 0]

CommonBits(a, b) == Max({k \in 0..Len(a) : SubSeq(a, 1, k) = SubSeq(b, 1, k)})

-----------------------------------------------------------------------------
(* Trie nodes.                                                             *)

Leaf(ip, cidr, peer) ==
    [bits |-> ip, cidr |-> cidr, peer |-> peer, child |-> [b \in {0, 1} |-> Nil]]

\* bit_at_byte and bit_at_shift address the first bit after the prefix.
Choose(node, ip) == ip[node.cidr + 1]

\* mutant: the sibling overwrites the child it was to be put beside
SplitLosing(node, ip, cidr, peer) ==
    LET parent == Leaf(ip, CommonBits(node.bits, ip), Nil) IN
    IF cidr <= parent.cidr
    THEN [Leaf(ip, cidr, peer) EXCEPT !.child[Choose(Leaf(ip, cidr, peer), node.bits)] = node]
    ELSE [parent EXCEPT !.child[Choose(parent, ip)] = Leaf(ip, cidr, peer)]

\* The end of Insert: neither prefix extends the other's node downwards, so the
\* new node goes above node, or both go below a new parent.
Split(node, ip, cidr, peer) ==
    LET common == CommonBits(node.bits, ip)
        new == Leaf(ip, cidr, peer)
        parent == Leaf(ip, common, Nil)
        bit == Choose(parent, ip)
    IN  IF cidr <= common
        THEN [new EXCEPT !.child[Choose(new, node.bits)] = node]
        ELSE [parent EXCEPT !.child[bit] = new, !.child[1 - bit] = node]

RECURSIVE Insert(_, _, _, _)
Insert(node, ip, cidr, peer) ==
    IF node = Nil THEN Leaf(ip, cidr, peer)
    ELSE IF node.cidr <= cidr /\ CommonBits(node.bits, ip) >= node.cidr
         THEN IF node.cidr = cidr
              THEN [node EXCEPT !.peer = peer]
              ELSE [node EXCEPT !.child[Choose(node, ip)] = Insert(@, ip, cidr, peer)]
         ELSE Split(node, ip, cidr, peer)

\* mutant: children are not visited below a removed node
RECURSIVE RemoveTop(_, _)
RemoveTop(node, p) ==
    IF node = Nil THEN Nil
    ELSE LET kept == [b \in {0, 1} |-> RemoveTop(node.child[b], p)] IN
         IF node.peer # p THEN [node EXCEPT !.child = kept]
         ELSE IF node.child[0] = Nil THEN node.child[1] ELSE node.child[0]

\* A node that loses its peer is replaced by its first child.
RECURSIVE Remove(_, _)
Remove(node, p) ==
    IF node = Nil THEN Nil
    ELSE LET kept == [b \in {0, 1} |-> Remove(node.child[b], p)] IN
         IF node.peer # p THEN [node EXCEPT !.child = kept]
         ELSE IF kept[0] = Nil THEN kept[1] ELSE kept[0]

\* mutant: a node without a peer hides what was found above it
RECURSIVE LookupLast(_, _, _)
LookupLast(node, ip, found) ==
    IF node = Nil \/ (node # Nil /\ CommonBits(node.bits, ip) < node.cidr) THEN found
    ELSE IF node.cidr = Len(ip) THEN node.peer
         ELSE LookupLast(node.child[Choose(node, ip)], ip, node.peer)

RECURSIVE Lookup(_, _, _)
Lookup(node, ip, found) ==
    IF node = Nil THEN found
    ELSE IF CommonBits(node.bits, ip) < node.cidr THEN found
    ELSE LET best == IF node.peer # Nil THEN node.peer ELSE found IN
         IF node.cidr = Len(ip) THEN best
         ELSE Lookup(node.child[Choose(node, ip)], ip, best)

\* AllowedIPs, for all peers at once: the prefixes in the trie.
RECURSIVE AllowedIPs(_)
AllowedIPs(node) ==
    IF node = Nil THEN {}
    ELSE (IF node.peer = Nil THEN {}
          ELSE {[prefix |-> SubSeq(node.bits, 1, node.cidr), peer |-> node.peer]})
         \cup AllowedIPs(node.child[0]) \cup AllowedIPs(node.child[1])

-----------------------------------------------------------------------------
(* The operations.                                                         *)

Init ==
    /\ table = [f \in Family |-> Nil]
    /\ routes = [f \in Family |-> {}]

InsertRoute(f, pre, p) ==
    LET old == {r \in routes[f] : r.prefix = pre} IN
    /\ Cardinality({<<g, r>> \in Family \X UNION Range(routes) : r \in routes[g]}) < MaxRoutes
       \/ old # {}
    /\ table' = [table EXCEPT ![f] = Insert(@, Masked(f, pre), Len(pre), p)]
    /\ routes' = [routes EXCEPT ![f] = (@ \ old) \cup {[prefix |-> pre, peer |-> p]}]

RemovePeer(p) ==
    /\ table' = [f \in Family |-> Remove(table[f], p)]
    /\ routes' = [f \in Family |-> {r \in routes[f] : r.peer # p}]

Next ==
    \/ \E f \in Family, p \in Peer : \E pre \in Prefix(f) : InsertRoute(f, pre, p)
    \/ \E p \in Removable : RemovePeer(p)

Spec == Init /\ [][Next]_vars

-----------------------------------------------------------------------------
(* Properties.                                                             *)

Matches(r, ip) == SubSeq(ip, 1, Len(r.prefix)) = r.prefix

\* The peer of the longest prefix in R that matches ip (SlowRouter of the tests).
LongestMatch(R, ip) ==
    LET M == {r \in R : Matches(r, ip)} IN
    IF M = {} THEN Nil
    ELSE (CHOOSE r \in M : \A s \in M : Len(s.prefix) <= Len(r.prefix)).peer

\* Every address is routed to the peer of the longest prefix in the table, which is
\* what AllowedIPs reports to a UAPI get, also after removals.
LookupIsReported ==
    \A f \in Family : \A ip \in Address(f) :
        Lookup(table[f], ip, Nil) = LongestMatch(AllowedIPs(table[f]), ip)

\* Insert adds its prefix, or gives it to another peer, and leaves every other route
\* in the table, however nodes were split or merged before.
InsertIsExact ==
    [][\A f \in Family : \A r \in routes'[f] \ routes[f] :
          AllowedIPs(table'[f]) =
              {s \in AllowedIPs(table[f]) : s.prefix # r.prefix} \cup {r}]_vars

\* Nothing is routed that was not inserted, was replaced, or belongs to a peer that
\* was removed since.
NoStaleRoute == \A f \in Family : AllowedIPs(table[f]) \subseteq routes[f]

\* Removing a peer removes its routes and no others.
RemoveKeepsOthers == \A f \in Family : routes[f] \subseteq AllowedIPs(table[f])

=============================================================================
