----------------------------- MODULE RateLimiter -----------------------------
(***************************************************************************)
(* The rate limiter for handshake messages (ratelimiter.go): a bucket of   *)
(* tokens for every source address, which several workers use at a time.   *)
(*                                                                         *)
(* A token is what accrues in one tick of the clock (a nanosecond).  The   *)
(* two maps of the code, by the version of IP, are one table.              *)
(***************************************************************************)
EXTENDS Naturals

CONSTANTS Source,               \* source addresses
          Caller,               \* goroutines that call Allow
          PacketCost,           \* packetCost: tokens that a packet takes
          MaxTokens,            \* maxTokens: what a bucket holds
          GarbageCollectTime,   \* garbageCollectTime
          MaxEntries,           \* bound on the entries ever made
          Nobody                \* not an address

\* A full bucket is enough for a packet; an idle bucket is full before it is collected
\* (in the code a packet costs 50 ms, a bucket holds 250 ms and is kept for 1 s).
ASSUME LimiterAssumption ==
    /\ PacketCost \in Nat \ {0} /\ MaxTokens \in Nat /\ GarbageCollectTime \in Nat
    /\ PacketCost <= MaxTokens /\ MaxTokens <= GarbageCollectTime
    /\ MaxEntries \in Nat
    /\ Nobody \notin Source

VARIABLES table,           \* tableIPv4 and tableIPv6: the entry of an address, or 0
          tokens, age,     \* of the entries made: their tokens, and the time since lastTime
          made,            \* how many there are
          serving,         \* the address a worker calls Allow for, or Nobody
          entry,           \* the entry that it found, or 0 (nil)
          spent,           \* history: tokens that packets took and time has not restored
          outdated         \* history: addresses served after a lookup that was out of date:
                           \* an entry was made since, or the one found is no longer theirs

limiterVars == <<table, tokens, age, made, serving, entry, spent, outdated>>

Min(m, n) == IF m <= n THEN m ELSE n

\* What an entry holds once the tokens since lastTime are added.
Refilled(e) == Min(tokens[e] + age[e], MaxTokens)

-----------------------------------------------------------------------------
(* Allow: the entry is looked up under the lock of the tables, and used    *)
(* under its own.                                                          *)

Lookup(w, a) ==
    /\ serving[w] = Nobody
    /\ serving' = [serving EXCEPT ![w] = a]
    /\ entry' = [entry EXCEPT ![w] = table[a]]
    /\ UNCHANGED <<table, tokens, age, made, spent, outdated>>

CreateFull(w) ==                      \* mutant: the first packet is free
    LET a == serving[w] IN
    /\ a # Nobody /\ entry[w] = 0
    /\ made < MaxEntries
    /\ made' = made + 1
    /\ tokens' = [tokens EXCEPT ![made + 1] = MaxTokens]
    /\ age' = [age EXCEPT ![made + 1] = 0]
    /\ table' = [table EXCEPT ![a] = made + 1]
    /\ spent' = [spent EXCEPT ![a] = @ + PacketCost]
    /\ outdated' = IF table[a] = 0 THEN outdated ELSE outdated \cup {a}
    /\ serving' = [serving EXCEPT ![w] = Nobody]
    /\ UNCHANGED entry

\* Another worker may have made an entry since the lookup: it is replaced.
Create(w) ==
    LET a == serving[w] IN
    /\ a # Nobody /\ entry[w] = 0
    /\ made < MaxEntries
    /\ made' = made + 1
    /\ tokens' = [tokens EXCEPT ![made + 1] = MaxTokens - PacketCost]
    /\ age' = [age EXCEPT ![made + 1] = 0]
    /\ table' = [table EXCEPT ![a] = made + 1]
    /\ spent' = [spent EXCEPT ![a] = @ + PacketCost]
    /\ outdated' = IF table[a] = 0 THEN outdated ELSE outdated \cup {a}
    /\ serving' = [serving EXCEPT ![w] = Nobody]
    /\ UNCHANGED entry

TakeAlways(w) ==                      \* mutant: a packet that is refused is charged
    LET a == serving[w]
        e == entry[w]
        allowed == Refilled(e) > PacketCost
    IN
    /\ e # 0
    /\ tokens' = [tokens EXCEPT ![e] = IF allowed THEN Refilled(e) - PacketCost ELSE 0]
    /\ age' = [age EXCEPT ![e] = 0]
    /\ spent' = IF allowed THEN [spent EXCEPT ![a] = @ + PacketCost] ELSE spent
    /\ outdated' = IF allowed /\ table[a] # e THEN outdated \cup {a} ELSE outdated
    /\ serving' = [serving EXCEPT ![w] = Nobody] /\ entry' = [entry EXCEPT ![w] = 0]
    /\ UNCHANGED <<table, made>>

\* The entry may have been replaced or collected since the lookup.
TakeTokens(w) ==
    LET a == serving[w]
        e == entry[w]
        allowed == Refilled(e) > PacketCost
    IN
    /\ e # 0
    /\ tokens' = [tokens EXCEPT ![e] = IF allowed THEN Refilled(e) - PacketCost ELSE Refilled(e)]
    /\ age' = [age EXCEPT ![e] = 0]
    /\ spent' = IF allowed THEN [spent EXCEPT ![a] = @ + PacketCost] ELSE spent
    /\ outdated' = IF allowed /\ table[a] # e THEN outdated \cup {a} ELSE outdated
    /\ serving' = [serving EXCEPT ![w] = Nobody] /\ entry' = [entry EXCEPT ![w] = 0]
    /\ UNCHANGED <<table, made>>

-----------------------------------------------------------------------------
\* The garbage collection routine of Init.
CollectGarbage ==
    /\ table' = [a \in Source |->
                    IF table[a] # 0 /\ age[table[a]] > GarbageCollectTime
                    THEN 0 ELSE table[a]]
    /\ UNCHANGED <<tokens, age, made, serving, entry, spent, outdated>>

\* Ages past GarbageCollectTime are not told apart.
TimePasses ==
    /\ age' = [e \in 1..MaxEntries |-> Min(age[e] + 1, GarbageCollectTime + 1)]
    /\ spent' = [a \in Source |-> IF spent[a] = 0 THEN 0 ELSE spent[a] - 1]
    /\ UNCHANGED <<table, tokens, made, serving, entry, outdated>>

-----------------------------------------------------------------------------
LimiterInit ==
    /\ table = [a \in Source |-> 0]
    /\ tokens = [e \in 1..MaxEntries |-> 0] /\ age = [e \in 1..MaxEntries |-> 0]
    /\ made = 0
    /\ serving = [w \in Caller |-> Nobody] /\ entry = [w \in Caller |-> 0]
    /\ spent = [a \in Source |-> 0]
    /\ outdated = {}

LimiterNext ==
    \/ \E w \in Caller : (\E a \in Source : Lookup(w, a)) \/ Create(w) \/ TakeTokens(w)
    \/ CollectGarbage
    \/ TimePasses

LimiterSpec == LimiterInit /\ [][LimiterNext]_limiterVars

-----------------------------------------------------------------------------
(* Properties.                                                             *)

\* The types of the variables; a worker refers to an entry that was made.
LimiterTypeOK ==
    /\ table \in [Source -> 0..made]
    /\ made \in 0..MaxEntries
    /\ tokens \in [1..MaxEntries -> 0..MaxTokens]
    /\ age \in [1..MaxEntries -> 0..(GarbageCollectTime + 1)]
    /\ serving \in [Caller -> Source \cup {Nobody}]
    /\ entry \in [Caller -> 0..made]
    /\ \A w \in Caller : entry[w] # 0 => serving[w] # Nobody
    /\ spent \in [Source -> Nat]
    /\ outdated \in SUBSET Source

Level(a) == IF table[a] = 0 THEN MaxTokens ELSE Refilled(table[a])

\* While no packet of an address was served after a lookup that was out of date, the
\* limiter is exact for it: what it would still grant is what a bucket of MaxTokens,
\* refilled at the rate of the clock, has left after all the packets that were allowed.
\* A lookup is out of date when the entry that it found was collected, or replaced by
\* another worker's, before it is used, or when it found none and another worker made
\* one since: the packet is then charged to an entry that the next lookup does not see.
LimiterExact ==
    \A a \in Source : a \notin outdated => Level(a) + spent[a] = MaxTokens

\* Such a packet is free, never charged twice: however lookups, entries and collections
\* interleave, an address has at least what a bucket has left after its packets, so no
\* address that stays below the rate is refused.
NeverStricter ==
    \A a \in Source : Level(a) + spent[a] >= MaxTokens
=============================================================================
