-------------------------- MODULE RtTalkInfo_proofs --------------------------
EXTENDS RtTalkInfo, FiniteSetTheorems, TLAPS

\* What is true of the array also after entries behind it were listed and written
\* over: it is the inductive invariant, for InsideArray may become false and true.
UniqueInArray ==
    \A i, j \in DOMAIN rt_talk_list :
       i # j /\ rt_talk_list[i] \in Slots =>
         /\ rt_talk_list[i] # rt_talk_list[j]
         /\ rt_talk_info[rt_talk_list[i]].conn_id
              # rt_talk_info[rt_talk_list[j]].conn_id

EntriesTaken ==
    \A s \in Slots :
       /\ rt_talk_info[s].conn_id # NoConn <=> s \in Elements(rt_talk_list)
       /\ s \in Elements(rt_talk_list) => /\ rt_talk_info[s].conn_id \in Conn
                                        /\ rt_talk_info[s].play # {}
       /\ rt_talk_info[s].conn_id = NoConn => rt_talk_info[s].play = {}

TableInv == TypeOK /\ UniqueInArray /\ EntriesTaken

\* With the list inside the array it says the same of every listed entry.
UniqueEntries ==
    \A i, j \in DOMAIN rt_talk_list :
       i # j => /\ rt_talk_list[i] # rt_talk_list[j]
                /\ rt_talk_info[rt_talk_list[i]].conn_id
                     # rt_talk_info[rt_talk_list[j]].conn_id

InsideInv == TypeOK /\ InsideArray /\ UniqueEntries /\ EntriesTaken

LEMMA InsideFacts == TableInv /\ InsideArray => InsideInv
  BY DEF TableInv, InsideInv, InsideArray, UniqueInArray, UniqueEntries, Elements

-----------------------------------------------------------------------------
\* Removing an element from a list without duplicates.
LEMMA WithoutProperties ==
    ASSUME NEW S, NEW q \in Seq(S), NEW i \in DOMAIN q
    PROVE  /\ Without(q, i) \in Seq(S)
           /\ Len(Without(q, i)) = Len(q) - 1
           /\ DOMAIN Without(q, i) = 1..(Len(q) - 1)
           /\ \A j \in 1..(Len(q) - 1) :
                Without(q, i)[j] = IF j < i THEN q[j] ELSE q[j + 1]
  BY DEF Without

LEMMA WithoutRange ==
    ASSUME NEW S, NEW q \in Seq(S), NEW i \in DOMAIN q
    PROVE  /\ Elements(Without(q, i)) \subseteq Elements(q)
           /\ Elements(q) \ {q[i]} \subseteq Elements(Without(q, i))
           /\ (\A j \in DOMAIN q : j # i => q[j] # q[i])
                 => q[i] \notin Elements(Without(q, i))
<1> DEFINE w == Without(q, i)
<1>1. /\ DOMAIN w = 1..(Len(q) - 1)
      /\ \A j \in 1..(Len(q) - 1) : w[j] = IF j < i THEN q[j] ELSE q[j + 1]
  BY WithoutProperties
<1>2. DOMAIN q = 1..Len(q) /\ Len(q) \in Nat
  OBVIOUS
<1>3. ASSUME NEW x \in Elements(w)
      PROVE  \E j \in DOMAIN q : x = q[j] /\ j # i
  <2>1. PICK j \in 1..(Len(q) - 1) : x = w[j]
    BY <1>1, <1>3 DEF Elements
  <2>2. CASE j < i
    BY <1>1, <1>2, <2>1, <2>2 DEF Elements
  <2>3. CASE ~ (j < i)
    BY <1>1, <1>2, <2>1, <2>3 DEF Elements
  <2> QED BY <2>2, <2>3
<1>4. ASSUME NEW x \in Elements(q) \ {q[i]} PROVE x \in Elements(w)
  <2>1. PICK j \in 1..Len(q) : x = q[j] /\ j # i
    BY <1>2, <1>4 DEF Elements
  <2>2. CASE j < i
    <3>1. j \in 1..(Len(q) - 1) /\ w[j] = x
      BY <1>1, <1>2, <2>1, <2>2
    <3> QED BY <1>1, <3>1 DEF Elements
  <2>3. CASE j > i
    <3>1. j - 1 \in 1..(Len(q) - 1) /\ ~ (j - 1 < i) /\ (j - 1) + 1 = j
      BY <1>2, <2>1, <2>3
    <3>2. w[j - 1] = x
      BY <1>1, <2>1, <3>1
    <3> QED BY <1>1, <3>1, <3>2 DEF Elements
  <2> QED BY <1>2, <2>1, <2>2, <2>3
<1> HIDE DEF w
<1>5. Elements(w) \subseteq Elements(q)
  BY <1>3 DEF Elements
<1> QED BY <1>3, <1>4, <1>5 DEF w

\* Appending an element that is not in the list.
LEMMA AppendRange ==
    ASSUME NEW S, NEW q \in Seq(S), NEW x \in S
    PROVE  /\ Append(q, x) \in Seq(S)
           /\ DOMAIN Append(q, x) = 1..(Len(q) + 1)
           /\ \A j \in 1..Len(q) : Append(q, x)[j] = q[j]
           /\ Append(q, x)[Len(q) + 1] = x
           /\ Elements(Append(q, x)) = Elements(q) \cup {x}
<1>1. /\ Append(q, x) \in Seq(S)
      /\ DOMAIN Append(q, x) = 1..(Len(q) + 1)
      /\ \A j \in 1..Len(q) : Append(q, x)[j] = q[j]
      /\ Append(q, x)[Len(q) + 1] = x
      /\ Len(q) \in Nat /\ DOMAIN q = 1..Len(q)
  OBVIOUS
<1>2. \A y : y \in Elements(Append(q, x)) <=> y \in Elements(q) \cup {x}
  BY <1>1 DEF Elements
<1> QED BY <1>1, <1>2

-----------------------------------------------------------------------------
\* What the guards of the actions say about the entry they work on.
LEMMA ListedEntry ==
    ASSUME TypeOK, NEW c \in Conn, NEW i \in At(c)
    PROVE  /\ i \in DOMAIN rt_talk_list
           /\ rt_talk_list[i] \in Scan
           /\ rt_talk_info[rt_talk_list[i]].conn_id = c
  BY DEF TypeOK, At

LEMMA EmptyEntry ==
    ASSUME NEW s \in find_empty_rt_talk_info
    PROVE  s \in Scan /\ rt_talk_info[s].conn_id = NoConn
  BY DEF find_empty_rt_talk_info

-----------------------------------------------------------------------------
LEMMA InitTableInv == Init => TableInv
<1> SUFFICES ASSUME Init PROVE TableInv
  OBVIOUS
<1>1. TypeOK
  BY ConnAssumption DEF Init, TypeOK, Entry, Behind, Free
<1>2. UniqueInArray
  BY DEF Init, UniqueInArray
<1>3. EntriesTaken
  BY DEF Init, EntriesTaken, Elements, Free
<1> QED BY <1>1, <1>2, <1>3 DEF TableInv

LEMMA MarkPlayingTableInv ==
    ASSUME TableInv, NEW c \in Conn, NEW f \in Flag, NEW i \in At(c),
           MarkPlaying(i, f)
    PROVE  TableInv'
<1> DEFINE s == rt_talk_list[i]
<1> USE DEF TableInv
<1>1. s \in Scan /\ i \in DOMAIN rt_talk_list /\ rt_talk_info[s].conn_id = c
  BY ListedEntry
<1>2. /\ rt_talk_list' = rt_talk_list
      /\ rt_talk_info' \in [Scan -> Entry]
      /\ \A u \in Scan : /\ rt_talk_info'[u].conn_id = rt_talk_info[u].conn_id
                         /\ u # s => rt_talk_info'[u] = rt_talk_info[u]
      /\ rt_talk_info'[s].play = rt_talk_info[s].play \cup {f}
  BY <1>1 DEF MarkPlaying, TypeOK, Entry
<1>3. TypeOK'
  BY <1>2 DEF TypeOK
<1>4. \A j \in DOMAIN rt_talk_list : rt_talk_list[j] \in Scan
  BY DEF TypeOK
<1>5. UniqueInArray'
  BY <1>2, <1>4 DEF UniqueInArray
<1>6. EntriesTaken'
  <2>1. Elements(rt_talk_list)' = Elements(rt_talk_list) /\ Elements(rt_talk_list) \subseteq Scan
    BY <1>2, <1>4 DEF Elements
  <2>2. Slots \subseteq Scan
    BY SlotsAssumption DEF Slots, Scan
  <2>3. rt_talk_info[s].conn_id # NoConn
    BY <1>1, ConnAssumption
  <2> QED BY <1>1, <1>2, <2>1, <2>2, <2>3 DEF EntriesTaken
<1> QED BY <1>3, <1>5, <1>6

LEMMA ClaimEntryTableInv ==
    ASSUME TableInv, NEW c \in Conn, NEW f \in Flag, ~ ListedConn(c),
           NEW s \in find_empty_rt_talk_info, ClaimEntry(s, c, f)
    PROVE  TableInv'
<1> USE DEF TableInv
<1>1. s \in Scan /\ rt_talk_info[s].conn_id = NoConn
  BY EmptyEntry
<1>2. /\ rt_talk_info' \in [Scan -> Entry]
      /\ \A u \in Scan \ {s} : rt_talk_info'[u] = rt_talk_info[u]
      /\ rt_talk_info'[s].conn_id = c
      /\ rt_talk_info'[s].play = rt_talk_info[s].play \cup {f}
  BY <1>1 DEF ClaimEntry, TypeOK, Entry
<1>3. /\ rt_talk_list \in Seq(Scan)
      /\ Len(rt_talk_list) \in Nat
      /\ DOMAIN rt_talk_list = 1..Len(rt_talk_list)
      /\ \A j \in DOMAIN rt_talk_list : rt_talk_list[j] \in Scan
  BY DEF TypeOK
<1>4. /\ rt_talk_list' \in Seq(Scan)
      /\ DOMAIN rt_talk_list' = 1..(Len(rt_talk_list) + 1)
      /\ \A j \in 1..Len(rt_talk_list) : rt_talk_list'[j] = rt_talk_list[j]
      /\ rt_talk_list'[Len(rt_talk_list) + 1] = s
      /\ Elements(rt_talk_list') = Elements(rt_talk_list) \cup {s}
  BY <1>1, <1>3, AppendRange DEF ClaimEntry
<1>5. /\ Slots \subseteq Scan
      /\ s \in Slots => s \notin Elements(rt_talk_list)
      /\ \A j \in DOMAIN rt_talk_list : rt_talk_info[rt_talk_list[j]].conn_id # c
  BY <1>1, SlotsAssumption DEF EntriesTaken, Slots, Scan, ListedConn
<1>6. TypeOK'
  BY <1>2, <1>4 DEF TypeOK
<1>7. UniqueInArray'
  <2> SUFFICES ASSUME NEW j \in DOMAIN rt_talk_list', NEW k \in DOMAIN rt_talk_list',
                      j # k, rt_talk_list'[j] \in Slots
               PROVE  /\ rt_talk_list'[j] # rt_talk_list'[k]
                      /\ rt_talk_info'[rt_talk_list'[j]].conn_id
                           # rt_talk_info'[rt_talk_list'[k]].conn_id
    BY DEF UniqueInArray
  <2>1. CASE j = Len(rt_talk_list) + 1
    <3>1. /\ k \in DOMAIN rt_talk_list /\ rt_talk_list'[k] = rt_talk_list[k]
          /\ rt_talk_list'[j] = s /\ s \in Slots
      BY <1>3, <1>4, <2>1
    <3>2. rt_talk_list[k] \in Scan \ {s}
      BY <1>3, <1>5, <3>1 DEF Elements
    <3> QED BY <1>2, <1>5, <3>1, <3>2
  <2>2. CASE j # Len(rt_talk_list) + 1
    <3>1. j \in DOMAIN rt_talk_list /\ rt_talk_list'[j] = rt_talk_list[j]
      BY <1>3, <1>4, <2>2
    <3>2. rt_talk_list[j] \in Scan \ {s}
      BY <1>3, <1>5, <3>1 DEF Elements
    <3>3. CASE k = Len(rt_talk_list) + 1
      BY <1>2, <1>4, <1>5, <3>1, <3>2, <3>3
    <3>4. CASE k # Len(rt_talk_list) + 1
      <4>1. k \in DOMAIN rt_talk_list /\ rt_talk_list'[k] = rt_talk_list[k]
        BY <1>3, <1>4, <3>4
      <4>2. /\ rt_talk_list[j] # rt_talk_list[k]
            /\ rt_talk_info[rt_talk_list[j]].conn_id # rt_talk_info[rt_talk_list[k]].conn_id
        BY <3>1, <4>1 DEF UniqueInArray
      <4>3. /\ rt_talk_info'[rt_talk_list'[j]].conn_id = rt_talk_info[rt_talk_list[j]].conn_id
            /\ rt_talk_info[rt_talk_list[j]].conn_id # c
        BY <1>2, <1>5, <3>1, <3>2
      <4>4. CASE rt_talk_list[k] = s
        BY <1>2, <3>1, <4>1, <4>2, <4>3, <4>4
      <4>5. CASE rt_talk_list[k] # s
        BY <1>2, <1>3, <3>1, <4>1, <4>2, <4>3, <4>5
      <4> QED BY <4>4, <4>5
    <3> QED BY <3>3, <3>4
  <2> QED BY <2>1, <2>2
<1>8. EntriesTaken'
  <2> SUFFICES ASSUME NEW u \in Slots
               PROVE  /\ rt_talk_info'[u].conn_id # NoConn <=> u \in Elements(rt_talk_list')
                      /\ u \in Elements(rt_talk_list') => /\ rt_talk_info'[u].conn_id \in Conn
                                                        /\ rt_talk_info'[u].play # {}
                      /\ rt_talk_info'[u].conn_id = NoConn => rt_talk_info'[u].play = {}
    BY DEF EntriesTaken
  <2>1. CASE u = s
    BY <1>2, <1>4, <2>1, ConnAssumption
  <2>2. CASE u # s
    BY <1>2, <1>4, <1>5, <2>2 DEF EntriesTaken
  <2> QED BY <2>1, <2>2
<1> QED BY <1>6, <1>7, <1>8

LEMMA ClearPlayingTableInv ==
    ASSUME TableInv, NEW c \in Conn, NEW f \in Flag, NEW i \in At(c),
           ClearPlaying(i, f)
    PROVE  TableInv'
<1> DEFINE s == rt_talk_list[i]
<1> USE DEF TableInv
<1>1. s \in Scan /\ i \in DOMAIN rt_talk_list /\ rt_talk_info[s].conn_id = c
  BY ListedEntry
<1>2. /\ rt_talk_list' = rt_talk_list
      /\ rt_talk_info' \in [Scan -> Entry]
      /\ \A u \in Scan : /\ rt_talk_info'[u].conn_id = rt_talk_info[u].conn_id
                         /\ u # s => rt_talk_info'[u] = rt_talk_info[u]
      /\ rt_talk_info'[s].play # {}
  BY <1>1 DEF ClearPlaying, TypeOK, Entry
<1>3. TypeOK'
  BY <1>2 DEF TypeOK
<1>4. \A j \in DOMAIN rt_talk_list : rt_talk_list[j] \in Scan
  BY DEF TypeOK
<1>5. UniqueInArray'
  BY <1>2, <1>4 DEF UniqueInArray
<1>6. EntriesTaken'
  <2>1. Elements(rt_talk_list)' = Elements(rt_talk_list) /\ Elements(rt_talk_list) \subseteq Scan
    BY <1>2, <1>4 DEF Elements
  <2>2. Slots \subseteq Scan
    BY SlotsAssumption DEF Slots, Scan
  <2>3. rt_talk_info[s].conn_id # NoConn
    BY <1>1, ConnAssumption
  <2> QED BY <1>1, <1>2, <2>1, <2>2, <2>3 DEF EntriesTaken
<1> QED BY <1>3, <1>5, <1>6

LEMMA FreeEntryTableInv ==
    ASSUME TableInv, NEW c \in Conn, NEW f \in Flag, NEW i \in At(c),
           FreeEntry(i, f)
    PROVE  TableInv'
<1> DEFINE s == rt_talk_list[i]
<1> USE DEF TableInv
<1>1. s \in Scan /\ i \in DOMAIN rt_talk_list /\ rt_talk_info[s].conn_id = c
  BY ListedEntry
<1>2. /\ rt_talk_info' \in [Scan -> Entry]
      /\ \A u \in Scan \ {s} : rt_talk_info'[u] = rt_talk_info[u]
      /\ rt_talk_info'[s] = [conn_id |-> NoConn, play |-> {}]
  BY <1>1 DEF FreeEntry, TypeOK, Entry, Free
<1>3. /\ rt_talk_list \in Seq(Scan)
      /\ Len(rt_talk_list) \in Nat
      /\ DOMAIN rt_talk_list = 1..Len(rt_talk_list)
      /\ \A j \in DOMAIN rt_talk_list : rt_talk_list[j] \in Scan
  BY DEF TypeOK
<1>4. /\ rt_talk_list' \in Seq(Scan)
      /\ DOMAIN rt_talk_list' = 1..(Len(rt_talk_list) - 1)
      /\ \A j \in 1..(Len(rt_talk_list) - 1) :
           rt_talk_list'[j] = IF j < i THEN rt_talk_list[j] ELSE rt_talk_list[j + 1]
  BY <1>1, <1>3, WithoutProperties DEF FreeEntry
<1>5. /\ Elements(rt_talk_list') \subseteq Elements(rt_talk_list)
      /\ Elements(rt_talk_list) \ {s} \subseteq Elements(rt_talk_list')
      /\ s \in Slots => s \notin Elements(rt_talk_list')
  <2>1. /\ Elements(Without(rt_talk_list, i)) \subseteq Elements(rt_talk_list)
        /\ Elements(rt_talk_list) \ {rt_talk_list[i]} \subseteq Elements(Without(rt_talk_list, i))
        /\ (\A j \in DOMAIN rt_talk_list : j # i => rt_talk_list[j] # rt_talk_list[i])
              => rt_talk_list[i] \notin Elements(Without(rt_talk_list, i))
    BY <1>1, <1>3, WithoutRange
  <2>2. s \in Slots => \A j \in DOMAIN rt_talk_list : j # i => rt_talk_list[j] # s
    BY <1>1 DEF UniqueInArray
  <2> QED BY <2>1, <2>2 DEF FreeEntry
<1>6. TypeOK'
  BY <1>2, <1>4 DEF TypeOK
<1>7. UniqueInArray'
  <2> SUFFICES ASSUME NEW j \in DOMAIN rt_talk_list', NEW k \in DOMAIN rt_talk_list',
                      j # k, rt_talk_list'[j] \in Slots
               PROVE  /\ rt_talk_list'[j] # rt_talk_list'[k]
                      /\ rt_talk_info'[rt_talk_list'[j]].conn_id
                           # rt_talk_info'[rt_talk_list'[k]].conn_id
    BY DEF UniqueInArray
  <2> DEFINE old(n) == IF n < i THEN n ELSE n + 1
  <2>1. /\ old(j) \in DOMAIN rt_talk_list /\ old(k) \in DOMAIN rt_talk_list
        /\ old(j) # old(k) /\ old(j) # i /\ old(k) # i
        /\ rt_talk_list'[j] = rt_talk_list[old(j)]
        /\ rt_talk_list'[k] = rt_talk_list[old(k)]
    BY <1>1, <1>3, <1>4
  <2> HIDE DEF old
  <2>2. /\ rt_talk_list[old(j)] # rt_talk_list[old(k)]
        /\ rt_talk_info[rt_talk_list[old(j)]].conn_id # rt_talk_info[rt_talk_list[old(k)]].conn_id
        /\ rt_talk_list[old(j)] \in Scan \ {s}
    BY <1>1, <1>3, <2>1 DEF UniqueInArray
  <2>3. /\ rt_talk_info'[rt_talk_list'[j]].conn_id = rt_talk_info[rt_talk_list[old(j)]].conn_id
        /\ rt_talk_info[rt_talk_list[old(j)]].conn_id # NoConn
    BY <1>2, <1>3, <2>1, <2>2 DEF EntriesTaken, Elements
  <2>4. CASE rt_talk_list[old(k)] = s
    BY <1>2, <2>1, <2>2, <2>3, <2>4
  <2>5. CASE rt_talk_list[old(k)] # s
    BY <1>2, <1>3, <2>1, <2>2, <2>3, <2>5
  <2> QED BY <2>4, <2>5
<1>8. EntriesTaken'
  <2>1. Slots \subseteq Scan
    BY SlotsAssumption DEF Slots, Scan
  <2> QED BY <1>2, <1>5, <2>1, ConnAssumption DEF EntriesTaken
<1> QED BY <1>6, <1>7, <1>8

LEMMA BehindChangesTableInv ==
    ASSUME TableInv, BehindChanges
    PROVE  TableInv'
<1> USE DEF TableInv
<1>1. PICK s \in Scan \ Slots, w \in Behind :
         rt_talk_info' = [rt_talk_info EXCEPT ![s] = w]
  BY DEF BehindChanges
<1>2. /\ rt_talk_list' = rt_talk_list
      /\ rt_talk_info' \in [Scan -> Entry]
      /\ \A u \in Scan \ {s} : rt_talk_info'[u] = rt_talk_info[u]
      /\ rt_talk_info'[s].conn_id \notin Conn
  BY <1>1, ConnAssumption DEF BehindChanges, TypeOK, Entry, Behind
<1>3. TypeOK'
  BY <1>2 DEF TypeOK
<1>4. Slots \subseteq Scan \ {s}
  BY <1>1, SlotsAssumption DEF Slots, Scan
<1>5. \A j \in DOMAIN rt_talk_list : rt_talk_list[j] \in Scan
  BY DEF TypeOK
<1>6. UniqueInArray'
  <2> SUFFICES ASSUME NEW j \in DOMAIN rt_talk_list, NEW k \in DOMAIN rt_talk_list,
                      j # k, rt_talk_list[j] \in Slots
               PROVE  /\ rt_talk_list[j] # rt_talk_list[k]
                      /\ rt_talk_info'[rt_talk_list[j]].conn_id
                           # rt_talk_info'[rt_talk_list[k]].conn_id
    BY <1>2 DEF UniqueInArray
  <2>1. /\ rt_talk_list[j] # rt_talk_list[k]
        /\ rt_talk_info[rt_talk_list[j]].conn_id # rt_talk_info[rt_talk_list[k]].conn_id
        /\ rt_talk_info'[rt_talk_list[j]].conn_id = rt_talk_info[rt_talk_list[j]].conn_id
        /\ rt_talk_info[rt_talk_list[j]].conn_id \in Conn
    BY <1>2, <1>4 DEF UniqueInArray, EntriesTaken, Elements
  <2>2. CASE rt_talk_list[k] = s
    BY <1>2, <2>1, <2>2
  <2>3. CASE rt_talk_list[k] # s
    BY <1>2, <1>5, <2>1, <2>3
  <2> QED BY <2>2, <2>3
<1>7. EntriesTaken'
  BY <1>2, <1>4 DEF EntriesTaken
<1> QED BY <1>3, <1>6, <1>7

LEMMA AddTableInv ==
    ASSUME TableInv, NEW c \in Conn, NEW f \in Flag, add_play_info(c, f)
    PROVE  TableInv'
<1>1. CASE \E i \in At(c) : MarkPlaying(i, f)
  BY <1>1, MarkPlayingTableInv
<1>2. CASE ~ ListedConn(c) /\ \E s \in find_empty_rt_talk_info : ClaimEntry(s, c, f)
  BY <1>2, ClaimEntryTableInv
<1>3. CASE UNCHANGED vars
  BY <1>3 DEF vars, TableInv, TypeOK, UniqueInArray, EntriesTaken
<1> QED BY <1>1, <1>2, <1>3 DEF add_play_info

LEMMA DelTableInv ==
    ASSUME TableInv, NEW c \in Conn, NEW f \in Flag, del_play_info(c, f)
    PROVE  TableInv'
<1>1. CASE \E i \in At(c) : ClearPlaying(i, f) \/ FreeEntry(i, f)
  BY <1>1, ClearPlayingTableInv, FreeEntryTableInv
<1>2. CASE UNCHANGED vars
  BY <1>2 DEF vars, TableInv, TypeOK, UniqueInArray, EntriesTaken
<1> QED BY <1>1, <1>2 DEF del_play_info

\* A step is an add or a del of one flag of one connection, or not the table's.
LEMMA StepIsAddOrDel ==
    ASSUME Next
    PROVE  \/ \E c \in Conn, f \in Flag : add_play_info(c, f) \/ del_play_info(c, f)
           \/ BehindChanges
  BY DEF Next, Flag, add_audio_play_info, add_video_play_info,
         add_device_video_play_info, del_audio_play_info, del_video_play_info,
         del_device_video_play_info

LEMMA NextTableInv == TableInv /\ [Next]_vars => TableInv'
<1> SUFFICES ASSUME TableInv, [Next]_vars PROVE TableInv'
  OBVIOUS
<1>1. CASE Next
  BY <1>1, StepIsAddOrDel, AddTableInv, DelTableInv, BehindChangesTableInv
<1>2. CASE UNCHANGED vars
  BY <1>2 DEF vars, TableInv, TypeOK, UniqueInArray, EntriesTaken
<1> QED BY <1>1, <1>2

\* The fields of the table keep their types, whatever the number of phones.
THEOREM TypeCorrect == Spec => []TypeOK
<1>1. Spec => []TableInv
  BY InitTableInv, NextTableInv, PTL DEF Spec
<1>2. TableInv => TypeOK
  BY DEF TableInv
<1> QED BY <1>1, <1>2, PTL

\* A phone never has two entries, so no flag of it survives in a second one, also
\* when phones have been listed behind the array and are gone again.
THEOREM EntriesAreUnique == Spec => []OneEntryPerConn
<1>1. Spec => []TableInv
  BY InitTableInv, NextTableInv, PTL DEF Spec
<1>2. TableInv => OneEntryPerConn
  BY InsideFacts DEF InsideInv, UniqueEntries, OneEntryPerConn
<1> QED BY <1>1, <1>2, PTL

\* Entries of the array are claimed and freed in step with the list, whatever stands
\* or is written behind it, and also after the scan has run past it and the phones
\* listed there are gone again.
THEOREM EntriesDoNotLeak == Spec => []NoLeak
<1>1. Spec => []TableInv
  BY InitTableInv, NextTableInv, PTL DEF Spec
<1>2. TableInv => NoLeak
  BY DEF TableInv, EntriesTaken, NoLeak, InsideArray
<1> QED BY <1>1, <1>2, PTL

-----------------------------------------------------------------------------
\* Counting: as long as the entries are unique and inside the array, a phone
\* that is not listed finds a free entry in the array.
LEMMA RoomForNewConn ==
    ASSUME Capacity, TableInv, NEW c \in Conn, ~ ListedConn(c)
    PROVE  \E s \in Slots : rt_talk_info[s].conn_id = NoConn
<1> SUFFICES ASSUME \A s \in Slots : rt_talk_info[s].conn_id # NoConn
             PROVE  FALSE
  OBVIOUS
<1> USE DEF TableInv
<1> DEFINE Others == Conn \ {c}
           owner == [s \in Slots |-> rt_talk_info[s].conn_id]
<1>1. \A s \in Slots : s \in Elements(rt_talk_list) /\ rt_talk_info[s].conn_id \in Conn
  BY DEF EntriesTaken
<1>2. \A s \in Slots : rt_talk_info[s].conn_id # c
  BY <1>1 DEF ListedConn, Elements
<1>3. owner \in [Slots -> Others]
  BY <1>1, <1>2
<1>4. IsFiniteSet(Slots) /\ Cardinality(Slots) = NSlots
  BY SlotsAssumption, FS_Interval DEF Slots
<1>5. /\ IsFiniteSet(Others) /\ Cardinality(Others) = Cardinality(Conn) - 1
      /\ Cardinality(Conn) \in Nat
  BY ConnAssumption, FS_RemoveElement, FS_CardinalityType
<1>6. Cardinality(Others) < Cardinality(Slots)
  BY <1>4, <1>5, SlotsAssumption DEF Capacity
<1>7. \E x, y \in Slots : x # y /\ owner[x] = owner[y]
  <2> HIDE DEF Others, owner
  <2> QED BY <1>3, <1>4, <1>5, <1>6, FS_PigeonHole
<1>8. PICK x, y \in Slots : x # y /\ rt_talk_info[x].conn_id = rt_talk_info[y].conn_id
  BY <1>7
<1>9. PICK i, j \in DOMAIN rt_talk_list : rt_talk_list[i] = x /\ rt_talk_list[j] = y
  BY <1>1, <1>8 DEF Elements
<1> QED BY <1>8, <1>9 DEF UniqueInArray

\* The first free entry is then one of the array.
LEMMA ClaimInsideArray ==
    ASSUME Capacity, TableInv, NEW c \in Conn, ~ ListedConn(c),
           NEW s \in find_empty_rt_talk_info
    PROVE  s \in Slots
<1>1. PICK u \in Slots : rt_talk_info[u].conn_id = NoConn
  BY RoomForNewConn
<1>2. s \in Scan /\ \A v \in 1..(s - 1) : rt_talk_info[v].conn_id # NoConn
  BY DEF find_empty_rt_talk_info
<1> QED BY <1>1, <1>2, SlotsAssumption DEF Slots, Scan

LEMMA StepInsideArray ==
    ASSUME Capacity, TableInv, InsideArray, [Next]_vars
    PROVE  InsideArray'
<1> USE DEF InsideArray, TableInv
<1>1. CASE UNCHANGED vars
  BY <1>1 DEF vars
<1>2. ASSUME NEW c \in Conn, NEW f \in Flag, add_play_info(c, f)
      PROVE  InsideArray'
  <2>1. ASSUME NEW i \in At(c), MarkPlaying(i, f) PROVE InsideArray'
    BY <2>1 DEF MarkPlaying
  <2>2. ASSUME ~ ListedConn(c), NEW s \in find_empty_rt_talk_info, ClaimEntry(s, c, f)
        PROVE  InsideArray'
    <3>1. s \in Slots /\ s \in Scan
      BY <2>2, ClaimInsideArray, EmptyEntry
    <3>2. rt_talk_list \in Seq(Scan)
      BY DEF TypeOK
    <3>3. Elements(Append(rt_talk_list, s)) = Elements(rt_talk_list) \cup {s}
      BY <3>1, <3>2, AppendRange
    <3> QED BY <2>2, <3>1, <3>3 DEF ClaimEntry
  <2> QED BY <1>1, <1>2, <2>1, <2>2 DEF add_play_info
<1>3. ASSUME NEW c \in Conn, NEW f \in Flag, del_play_info(c, f)
      PROVE  InsideArray'
  <2>1. ASSUME NEW i \in At(c), ClearPlaying(i, f) PROVE InsideArray'
    BY <2>1 DEF ClearPlaying
  <2>2. ASSUME NEW i \in At(c), FreeEntry(i, f) PROVE InsideArray'
    <3>1. rt_talk_list \in Seq(Scan) /\ i \in DOMAIN rt_talk_list
      BY <2>2 DEF TypeOK, At
    <3>2. Elements(Without(rt_talk_list, i)) \subseteq Elements(rt_talk_list)
      BY <3>1, WithoutRange
    <3> QED BY <2>2, <3>2 DEF FreeEntry
  <2> QED BY <1>1, <1>3, <2>1, <2>2 DEF del_play_info
<1>4. CASE BehindChanges
  BY <1>4 DEF BehindChanges
<1> QED BY <1>1, <1>2, <1>3, <1>4, StepIsAddOrDel

\* With no more connections than entries, find_empty_rt_talk_info never
\* returns an entry behind the array, although its loop is bounded by the
\* array's size in bytes.
THEOREM ClaimsStayInside == ASSUME Capacity PROVE Spec => []InsideArray
<1>1. Init => InsideArray
  BY DEF Init, InsideArray, Elements
<1>2. TableInv /\ InsideArray /\ [Next]_vars => InsideArray'
  BY StepInsideArray
<1>3. Spec => []TableInv
  BY InitTableInv, NextTableInv, PTL DEF Spec
<1> QED BY <1>1, <1>2, <1>3, PTL DEF Spec

\* A claim is of the first free entry, and an entry that is not free is listed.
LEMMA StepClaims ==
    ASSUME TableInv, [Next]_vars, NEW s \in Elements(rt_talk_list') \ Elements(rt_talk_list),
           s \notin Slots
    PROVE  Slots \subseteq Elements(rt_talk_list)
<1> USE DEF TableInv
<1>1. rt_talk_list \in Seq(Scan)
  BY DEF TypeOK
<1>2. ASSUME NEW c \in Conn, NEW f \in Flag, NEW u \in find_empty_rt_talk_info,
             ClaimEntry(u, c, f)
      PROVE  Slots \subseteq Elements(rt_talk_list)
  <2>1. /\ u \in Scan
        /\ \A v \in 1..(u - 1) : rt_talk_info[v].conn_id # NoConn
    BY <1>2 DEF find_empty_rt_talk_info
  <2>2. Elements(Append(rt_talk_list, u)) = Elements(rt_talk_list) \cup {u}
    BY <1>1, <2>1, AppendRange
  <2>3. s = u
    BY <1>2, <2>2 DEF ClaimEntry
  <2>4. Slots \subseteq 1..(u - 1)
    BY <2>1, <2>3, SlotsAssumption DEF Slots, Scan
  <2> QED BY <2>1, <2>4 DEF EntriesTaken
<1>3. ASSUME NEW c \in Conn, NEW f \in Flag, NEW i \in At(c), FreeEntry(i, f)
      PROVE  FALSE
  <2>1. i \in DOMAIN rt_talk_list
    BY <1>3 DEF At
  <2>2. Elements(Without(rt_talk_list, i)) \subseteq Elements(rt_talk_list)
    BY <1>1, <2>1, WithoutRange
  <2> QED BY <1>3, <2>2 DEF FreeEntry
<1>4. ASSUME UNCHANGED rt_talk_list PROVE FALSE
  BY <1>4
<1>5. ASSUME NEW c \in Conn, NEW f \in Flag, add_play_info(c, f)
      PROVE  Slots \subseteq Elements(rt_talk_list)
  BY <1>2, <1>4, <1>5 DEF add_play_info, MarkPlaying, vars
<1>6. ASSUME NEW c \in Conn, NEW f \in Flag, del_play_info(c, f)
      PROVE  FALSE
  BY <1>3, <1>4, <1>6 DEF del_play_info, ClearPlaying, vars
<1>7. CASE BehindChanges
  BY <1>4, <1>7 DEF BehindChanges
<1> QED BY <1>4, <1>5, <1>6, <1>7, StepIsAddOrDel DEF vars

\* For any number of phones, entries and words behind them, memory behind the
\* array is claimed only while the array is full.
THEOREM ClaimsPastAFullArray == Spec => ClaimsPastOnlyWhenFull
<1>1. TableInv /\ [Next]_vars
        => [\A s \in Elements(rt_talk_list') \ Elements(rt_talk_list) :
              s \notin Slots => Slots \subseteq Elements(rt_talk_list)]_vars
  BY StepClaims
<1>2. Spec => []TableInv
  BY InitTableInv, NextTableInv, PTL DEF Spec
<1> QED BY <1>1, <1>2, PTL DEF Spec, ClaimsPastOnlyWhenFull

-----------------------------------------------------------------------------
\* The refinement mapping, connection by connection.
LEMMA PeersOfTable ==
    ASSUME InsideInv
    PROVE  /\ DOMAIN TheRegistry.peers = DOMAIN rt_talk_list
           /\ \A i \in DOMAIN rt_talk_list :
                 TheRegistry.peers[i] = rt_talk_info[rt_talk_list[i]].conn_id
           /\ DOMAIN TheRegistry.play = Conn
           /\ \A c \in Conn : Registry!Listed(TheRegistry, c) <=> ListedConn(c)
  BY DEF TheRegistry, Registry!Listed, Registry!Elements, ListedConn

LEMMA PositionOfListed ==
    ASSUME InsideInv, NEW c \in Conn, NEW i \in DOMAIN rt_talk_list,
           rt_talk_info[rt_talk_list[i]].conn_id = c
    PROVE  /\ At(c) = {i}
           /\ Registry!Position(TheRegistry, c) = i
           /\ TheRegistry.play[c] = rt_talk_info[rt_talk_list[i]].play
<1>1. \A j \in DOMAIN rt_talk_list :
         rt_talk_info[rt_talk_list[j]].conn_id = c => j = i
  BY DEF InsideInv, UniqueEntries
<1>2. DOMAIN rt_talk_list = 1..Len(rt_talk_list) /\ Len(rt_talk_list) \in Nat
  BY DEF InsideInv, TypeOK
<1>3. At(c) = {i}
  BY <1>1, <1>2 DEF At
<1>4. Registry!Position(TheRegistry, c) = i
  BY <1>1, PeersOfTable DEF Registry!Position
<1>5. TheRegistry.play[c] = UNION {rt_talk_info[rt_talk_list[j]].play : j \in At(c)}
  BY DEF TheRegistry
<1> QED BY <1>3, <1>4, <1>5

LEMMA PlayOfUnlisted ==
    ASSUME InsideInv, NEW c \in Conn, ~ ListedConn(c)
    PROVE  At(c) = {} /\ TheRegistry.play[c] = {}
<1>1. At(c) = {}
  BY DEF At, ListedConn
<1> QED BY <1>1 DEF TheRegistry

\* A registry is determined by its list and by what each connection plays.
LEMMA RegistryEquality ==
    ASSUME NEW r, NEW p, NEW q,
           r = [peers |-> p, play |-> q],
           TheRegistry'.peers = p,
           \A c \in Conn : TheRegistry'.play[c] = q[c],
           q = [c \in Conn |-> q[c]]
    PROVE  TheRegistry' = r
<1>1. TheRegistry' = [peers |-> TheRegistry'.peers, play |-> TheRegistry'.play]
  BY DEF TheRegistry
<1>2. TheRegistry'.play = [c \in Conn |-> TheRegistry'.play[c]]
  BY DEF TheRegistry
<1> QED BY <1>1, <1>2

LEMMA MarkPlayingIsAdded ==
    ASSUME InsideInv, InsideInv', NEW c \in Conn, NEW f \in Flag, NEW i \in At(c),
           MarkPlaying(i, f)
    PROVE  TheRegistry' = Registry!Added(TheRegistry, c, f)
<1> DEFINE s == rt_talk_list[i]
<1>1. s \in Scan /\ i \in DOMAIN rt_talk_list /\ rt_talk_info[s].conn_id = c
  BY ListedEntry DEF InsideInv
<1>2. /\ rt_talk_list' = rt_talk_list
      /\ \A u \in Scan : /\ rt_talk_info'[u].conn_id = rt_talk_info[u].conn_id
                         /\ u # s => rt_talk_info'[u] = rt_talk_info[u]
      /\ rt_talk_info'[s].play = rt_talk_info[s].play \cup {f}
  BY <1>1 DEF MarkPlaying, InsideInv, TypeOK, Entry
<1>3. \A j \in DOMAIN rt_talk_list : rt_talk_list[j] \in Scan
  BY DEF InsideInv, TypeOK
<1>4. TheRegistry'.peers = TheRegistry.peers
  BY <1>2, <1>3 DEF TheRegistry
<1>5. \A d \in Conn : At(d)' = At(d)
  <2>1. \A j \in DOMAIN rt_talk_list :
          rt_talk_info'[rt_talk_list[j]].conn_id = rt_talk_info[rt_talk_list[j]].conn_id
    BY <1>2, <1>3
  <2>2. \A j \in DOMAIN rt_talk_list : \A k \in 1..(j - 1) : k \in DOMAIN rt_talk_list
    BY DEF InsideInv, TypeOK
  <2> QED BY <1>2, <2>1, <2>2 DEF At
<1>6. ASSUME NEW d \in Conn
      PROVE  TheRegistry'.play[d] = [TheRegistry.play EXCEPT ![c] = @ \cup {f}][d]
  <2>1. CASE d = c
    <3>1. TheRegistry.play[c] = rt_talk_info[s].play
      BY <1>1, PositionOfListed
    <3>2. TheRegistry'.play[c] = rt_talk_info'[s].play
      <4>1. At(c) = {i}
        BY <1>1, PositionOfListed
      <4>2. TheRegistry'.play[c]
              = UNION {rt_talk_info'[rt_talk_list'[j]].play : j \in At(c)'}
        BY DEF TheRegistry
      <4> QED BY <1>2, <1>5, <4>1, <4>2
    <3> QED BY <1>2, <2>1, <3>1, <3>2, PeersOfTable
  <2>2. CASE d # c
    <3>1. \A j \in At(d) : rt_talk_list[j] # s /\ rt_talk_list[j] \in Scan
      BY <1>1, <1>3, <2>2 DEF At
    <3>2. TheRegistry'.play[d] = TheRegistry.play[d]
      BY <1>2, <1>5, <3>1 DEF TheRegistry
    <3> QED BY <2>2, <3>2, PeersOfTable
  <2> QED BY <2>1, <2>2
<1>7. Registry!Listed(TheRegistry, c)
  BY <1>1, PeersOfTable DEF ListedConn
<1> DEFINE q == [TheRegistry.play EXCEPT ![c] = @ \cup {f}]
<1>8. Registry!Added(TheRegistry, c, f) = [peers |-> TheRegistry.peers, play |-> q]
  BY <1>7 DEF Registry!Added
<1>9. q = [d \in Conn |-> q[d]]
  BY PeersOfTable DEF TheRegistry
<1> HIDE DEF q
<1> QED BY <1>4, <1>6, <1>8, <1>9, RegistryEquality DEF q

\* The same facts in the state after a step.
LEMMA PlayAfterStep ==
    ASSUME InsideInv', NEW c \in Conn
    PROVE  /\ \A i \in DOMAIN rt_talk_list' :
                rt_talk_info'[rt_talk_list'[i]].conn_id = c
                  => TheRegistry'.play[c] = rt_talk_info'[rt_talk_list'[i]].play
           /\ (\A i \in DOMAIN rt_talk_list' :
                 rt_talk_info'[rt_talk_list'[i]].conn_id # c)
                  => TheRegistry'.play[c] = {}
<1>1. TheRegistry'.play[c]
        = UNION {rt_talk_info'[rt_talk_list'[j]].play : j \in At(c)'}
  BY DEF TheRegistry
<1>2. ASSUME NEW i \in DOMAIN rt_talk_list',
             rt_talk_info'[rt_talk_list'[i]].conn_id = c
      PROVE  TheRegistry'.play[c] = rt_talk_info'[rt_talk_list'[i]].play
  <2>1. \A j \in DOMAIN rt_talk_list' :
           rt_talk_info'[rt_talk_list'[j]].conn_id = c => j = i
    BY <1>2 DEF InsideInv, UniqueEntries
  <2>2. DOMAIN rt_talk_list' = 1..Len(rt_talk_list') /\ Len(rt_talk_list') \in Nat
    BY DEF InsideInv, TypeOK
  <2>3. At(c)' = {i}
    BY <1>2, <2>1, <2>2 DEF At
  <2> QED BY <1>1, <2>3
<1>3. ASSUME \A i \in DOMAIN rt_talk_list' :
               rt_talk_info'[rt_talk_list'[i]].conn_id # c
      PROVE  TheRegistry'.play[c] = {}
  <2>1. At(c)' = {}
    BY <1>3 DEF At
  <2> QED BY <1>1, <2>1
<1> QED BY <1>2, <1>3

LEMMA ClaimEntryIsAdded ==
    ASSUME InsideInv, InsideInv', NEW c \in Conn, NEW f \in Flag, ~ ListedConn(c),
           NEW s \in find_empty_rt_talk_info, ClaimEntry(s, c, f)
    PROVE  TheRegistry' = Registry!Added(TheRegistry, c, f)
<1>1. s \in Scan /\ rt_talk_info[s].conn_id = NoConn /\ rt_talk_info[s].play = {}
  <2>1. Elements(rt_talk_list') = Elements(rt_talk_list) \cup {s}
    BY EmptyEntry, AppendRange DEF ClaimEntry, InsideInv, TypeOK
  <2>2. s \in Slots
    BY <2>1 DEF InsideInv, InsideArray
  <2> QED BY <2>2, EmptyEntry DEF InsideInv, EntriesTaken
<1>2. /\ \A u \in Scan \ {s} : rt_talk_info'[u] = rt_talk_info[u]
      /\ rt_talk_info'[s].conn_id = c
      /\ rt_talk_info'[s].play = {f}
  BY <1>1 DEF ClaimEntry, InsideInv, TypeOK, Entry
<1>3. /\ Len(rt_talk_list) \in Nat
      /\ DOMAIN rt_talk_list = 1..Len(rt_talk_list)
      /\ \A j \in DOMAIN rt_talk_list : rt_talk_list[j] \in Scan /\ rt_talk_list[j] # s
  BY <1>1, ConnAssumption DEF InsideInv, InsideArray, TypeOK, EntriesTaken, Elements
<1>4. /\ DOMAIN rt_talk_list' = 1..(Len(rt_talk_list) + 1)
      /\ \A j \in 1..Len(rt_talk_list) : rt_talk_list'[j] = rt_talk_list[j]
      /\ rt_talk_list'[Len(rt_talk_list) + 1] = s
  <2>1. rt_talk_list \in Seq(Scan)
    BY DEF InsideInv, TypeOK
  <2> QED BY <1>1, <2>1, AppendRange DEF ClaimEntry
<1>5. TheRegistry'.peers = Append(TheRegistry.peers, c)
  <2>1. TheRegistry.peers = [j \in 1..Len(rt_talk_list) |-> rt_talk_info[rt_talk_list[j]].conn_id]
    BY <1>3 DEF TheRegistry
  <2>2. TheRegistry'.peers = [j \in 1..(Len(rt_talk_list) + 1) |->
                                rt_talk_info'[rt_talk_list'[j]].conn_id]
    BY <1>4 DEF TheRegistry
  <2>3. \A j \in 1..Len(rt_talk_list) :
           rt_talk_info'[rt_talk_list'[j]].conn_id = rt_talk_info[rt_talk_list[j]].conn_id
    BY <1>2, <1>3, <1>4
  <2>4. \A n \in Nat : \A g : Append([j \in 1..n |-> g[j]], c)
                              = [j \in 1..(n + 1) |-> IF j = n + 1 THEN c ELSE g[j]]
    OBVIOUS
  <2>5. Append(TheRegistry.peers, c)
          = [j \in 1..(Len(rt_talk_list) + 1) |->
               IF j = Len(rt_talk_list) + 1 THEN c ELSE TheRegistry.peers[j]]
    BY <1>3, <2>1, <2>4
  <2> QED BY <1>2, <1>3, <1>4, <2>1, <2>2, <2>3, <2>5
<1> DEFINE q == [TheRegistry.play EXCEPT ![c] = @ \cup {f}]
<1>6. ASSUME NEW d \in Conn PROVE TheRegistry'.play[d] = q[d]
  <2>1. CASE d = c
    <3>1. TheRegistry'.play[c] = {f}
      BY <1>2, <1>3, <1>4, PlayAfterStep
    <3> QED BY <2>1, <3>1, PlayOfUnlisted, PeersOfTable
  <2>2. CASE d # c /\ ListedConn(d)
    <3>1. PICK j \in DOMAIN rt_talk_list : rt_talk_info[rt_talk_list[j]].conn_id = d
      BY <2>2 DEF ListedConn
    <3>2. j \in DOMAIN rt_talk_list' /\ rt_talk_info'[rt_talk_list'[j]] = rt_talk_info[rt_talk_list[j]]
      BY <1>2, <1>3, <1>4, <3>1
    <3>3. TheRegistry'.play[d] = rt_talk_info[rt_talk_list[j]].play
      BY <3>1, <3>2, PlayAfterStep
    <3>4. TheRegistry.play[d] = rt_talk_info[rt_talk_list[j]].play
      BY <3>1, PositionOfListed
    <3> QED BY <2>2, <3>3, <3>4, PeersOfTable
  <2>3. CASE d # c /\ ~ ListedConn(d)
    <3>1. \A j \in DOMAIN rt_talk_list' : rt_talk_info'[rt_talk_list'[j]].conn_id # d
      <4> SUFFICES ASSUME NEW j \in DOMAIN rt_talk_list'
                   PROVE  rt_talk_info'[rt_talk_list'[j]].conn_id # d
        OBVIOUS
      <4>1. CASE j = Len(rt_talk_list) + 1
        BY <1>2, <1>4, <2>3, <4>1
      <4>2. CASE j # Len(rt_talk_list) + 1
        <5>1. j \in DOMAIN rt_talk_list /\ rt_talk_list'[j] = rt_talk_list[j]
          BY <1>3, <1>4, <4>2
        <5> QED BY <1>2, <1>3, <2>3, <5>1 DEF ListedConn
      <4> QED BY <4>1, <4>2
    <3>2. TheRegistry'.play[d] = {}
      BY <3>1, PlayAfterStep
    <3> QED BY <2>3, <3>2, PlayOfUnlisted, PeersOfTable
  <2> QED BY <2>1, <2>2, <2>3
<1>7. ~ Registry!Listed(TheRegistry, c)
  BY PeersOfTable
<1>8. Registry!Added(TheRegistry, c, f)
        = [peers |-> Append(TheRegistry.peers, c), play |-> q]
  BY <1>7 DEF Registry!Added
<1>9. q = [d \in Conn |-> q[d]]
  BY PeersOfTable DEF TheRegistry
<1> HIDE DEF q
<1> QED BY <1>5, <1>6, <1>8, <1>9, RegistryEquality DEF q

LEMMA ClearPlayingIsDeleted ==
    ASSUME InsideInv, InsideInv', NEW c \in Conn, NEW f \in Flag, NEW i \in At(c),
           ClearPlaying(i, f)
    PROVE  TheRegistry' = Registry!Deleted(TheRegistry, c, f)
<1> DEFINE s == rt_talk_list[i]
           q == [TheRegistry.play EXCEPT ![c] = @ \ {f}]
<1>1. s \in Scan /\ i \in DOMAIN rt_talk_list /\ rt_talk_info[s].conn_id = c
  BY ListedEntry DEF InsideInv
<1>2. /\ rt_talk_list' = rt_talk_list
      /\ \A u \in Scan : /\ rt_talk_info'[u].conn_id = rt_talk_info[u].conn_id
                         /\ u # s => rt_talk_info'[u] = rt_talk_info[u]
      /\ rt_talk_info'[s].play = rt_talk_info[s].play \ {f}
      /\ ~ rt_talk_info[s].play \subseteq {f}
  BY <1>1 DEF ClearPlaying, InsideInv, TypeOK, Entry
<1>3. \A j \in DOMAIN rt_talk_list : rt_talk_list[j] \in Scan
  BY DEF InsideInv, TypeOK
<1>4. TheRegistry'.peers = TheRegistry.peers
  BY <1>2, <1>3 DEF TheRegistry
<1>5. TheRegistry.play[c] = rt_talk_info[s].play
  BY <1>1, PositionOfListed
<1>6. ASSUME NEW d \in Conn PROVE TheRegistry'.play[d] = q[d]
  <2>1. CASE d = c
    <3>1. TheRegistry'.play[c] = rt_talk_info'[s].play
      BY <1>1, <1>2, PlayAfterStep
    <3> QED BY <1>2, <1>5, <2>1, <3>1, PeersOfTable
  <2>2. CASE d # c /\ ListedConn(d)
    <3>1. PICK j \in DOMAIN rt_talk_list : rt_talk_info[rt_talk_list[j]].conn_id = d
      BY <2>2 DEF ListedConn
    <3>2. rt_talk_list[j] # s
      BY <1>1, <2>2, <3>1
    <3>3. rt_talk_info'[rt_talk_list'[j]] = rt_talk_info[rt_talk_list[j]]
      BY <1>2, <1>3, <3>2
    <3>4. TheRegistry'.play[d] = rt_talk_info[rt_talk_list[j]].play
      BY <1>2, <3>1, <3>3, PlayAfterStep
    <3>5. TheRegistry.play[d] = rt_talk_info[rt_talk_list[j]].play
      BY <3>1, PositionOfListed
    <3> QED BY <2>2, <3>4, <3>5, PeersOfTable
  <2>3. CASE d # c /\ ~ ListedConn(d)
    <3>1. \A j \in DOMAIN rt_talk_list' : rt_talk_info'[rt_talk_list'[j]].conn_id # d
      BY <1>2, <1>3, <2>3 DEF ListedConn
    <3>2. TheRegistry'.play[d] = {}
      BY <3>1, PlayAfterStep
    <3> QED BY <2>3, <3>2, PlayOfUnlisted, PeersOfTable
  <2> QED BY <2>1, <2>2, <2>3
<1>7. Registry!Listed(TheRegistry, c)
  BY <1>1, PeersOfTable DEF ListedConn
<1>8. Registry!Deleted(TheRegistry, c, f) = [peers |-> TheRegistry.peers, play |-> q]
  BY <1>2, <1>5, <1>7 DEF Registry!Deleted
<1>9. q = [d \in Conn |-> q[d]]
  BY PeersOfTable DEF TheRegistry
<1> HIDE DEF q
<1> QED BY <1>4, <1>6, <1>8, <1>9, RegistryEquality DEF q

LEMMA FreeEntryIsDeleted ==
    ASSUME InsideInv, InsideInv', NEW c \in Conn, NEW f \in Flag, NEW i \in At(c),
           FreeEntry(i, f)
    PROVE  TheRegistry' = Registry!Deleted(TheRegistry, c, f)
<1> DEFINE s == rt_talk_list[i]
           q == [TheRegistry.play EXCEPT ![c] = @ \ {f}]
<1>1. s \in Scan /\ i \in DOMAIN rt_talk_list /\ rt_talk_info[s].conn_id = c
  BY ListedEntry DEF InsideInv
<1>2. /\ \A u \in Scan \ {s} : rt_talk_info'[u] = rt_talk_info[u]
      /\ rt_talk_info[s].play \subseteq {f}
  BY <1>1 DEF FreeEntry, InsideInv, TypeOK, Entry
<1>3. /\ Len(rt_talk_list) \in Nat
      /\ DOMAIN rt_talk_list = 1..Len(rt_talk_list)
      /\ \A j \in DOMAIN rt_talk_list : rt_talk_list[j] \in Scan
      /\ \A j, k \in DOMAIN rt_talk_list : j # k => rt_talk_list[j] # rt_talk_list[k]
  BY DEF InsideInv, TypeOK, UniqueEntries
<1>4. /\ DOMAIN rt_talk_list' = 1..(Len(rt_talk_list) - 1)
      /\ \A j \in 1..(Len(rt_talk_list) - 1) :
           rt_talk_list'[j] = IF j < i THEN rt_talk_list[j] ELSE rt_talk_list[j + 1]
  <2>1. rt_talk_list \in Seq(Scan)
    BY DEF InsideInv, TypeOK
  <2> QED BY <1>1, <2>1, WithoutProperties DEF FreeEntry
<1> DEFINE old(n) == IF n < i THEN n ELSE n + 1
<1>5. \A j \in DOMAIN rt_talk_list' :
         /\ old(j) \in DOMAIN rt_talk_list /\ old(j) # i
         /\ rt_talk_list'[j] = rt_talk_list[old(j)]
         /\ rt_talk_info'[rt_talk_list'[j]] = rt_talk_info[rt_talk_list[old(j)]]
  <2> SUFFICES ASSUME NEW j \in DOMAIN rt_talk_list'
               PROVE  /\ old(j) \in DOMAIN rt_talk_list /\ old(j) # i
                      /\ rt_talk_list'[j] = rt_talk_list[old(j)]
                      /\ rt_talk_info'[rt_talk_list'[j]] = rt_talk_info[rt_talk_list[old(j)]]
    OBVIOUS
  <2>1. /\ old(j) \in DOMAIN rt_talk_list /\ old(j) # i
        /\ rt_talk_list'[j] = rt_talk_list[old(j)]
    BY <1>1, <1>3, <1>4
  <2> HIDE DEF old
  <2>2. rt_talk_list[old(j)] \in Scan \ {s}
    BY <1>1, <1>3, <2>1
  <2> QED BY <1>2, <2>1, <2>2
<1>6. \A k \in DOMAIN rt_talk_list : k # i => \E j \in DOMAIN rt_talk_list' : old(j) = k
  <2> SUFFICES ASSUME NEW k \in DOMAIN rt_talk_list, k # i
               PROVE  \E j \in DOMAIN rt_talk_list' : old(j) = k
    OBVIOUS
  <2>1. CASE k < i
    <3>1. k \in DOMAIN rt_talk_list' /\ old(k) = k
      BY <1>1, <1>3, <1>4, <2>1
    <3> QED BY <3>1
  <2>2. CASE k > i
    <3>1. k - 1 \in DOMAIN rt_talk_list' /\ old(k - 1) = k
      BY <1>1, <1>3, <1>4, <2>2
    <3> QED BY <3>1
  <2> QED BY <1>1, <1>3, <2>1, <2>2
<1>7. TheRegistry.play[c] = rt_talk_info[s].play /\ Registry!Position(TheRegistry, c) = i
  BY <1>1, PositionOfListed
<1>8. TheRegistry'.peers = Registry!Without(TheRegistry.peers, i)
  <2>1. /\ TheRegistry.peers = [j \in 1..Len(rt_talk_list) |->
                                   rt_talk_info[rt_talk_list[j]].conn_id]
        /\ TheRegistry'.peers = [j \in 1..(Len(rt_talk_list) - 1) |->
                                   rt_talk_info'[rt_talk_list'[j]].conn_id]
    BY <1>3, <1>4 DEF TheRegistry
  <2>2. \A n \in Nat : \A g : Len([j \in 1..n |-> g[j]]) = n
    OBVIOUS
  <2>3. Len(TheRegistry.peers) = Len(rt_talk_list)
    <3> DEFINE g == [j \in 1..Len(rt_talk_list) |-> rt_talk_info[rt_talk_list[j]].conn_id]
    <3>1. TheRegistry.peers = [j \in 1..Len(rt_talk_list) |-> g[j]]
      BY <2>1
    <3> HIDE DEF g
    <3> QED BY <1>3, <2>2, <3>1
  <2>4. \A j \in 1..(Len(rt_talk_list) - 1) :
           rt_talk_info'[rt_talk_list'[j]].conn_id = TheRegistry.peers[old(j)]
    BY <1>4, <1>5, <2>1, <1>3
  <2> QED BY <1>3, <2>1, <2>3, <2>4 DEF Registry!Without
<1> HIDE DEF old
<1>9. ASSUME NEW d \in Conn PROVE TheRegistry'.play[d] = q[d]
  <2>1. CASE d = c
    <3>1. \A j \in DOMAIN rt_talk_list' : rt_talk_info'[rt_talk_list'[j]].conn_id # c
      BY <1>1, <1>5 DEF InsideInv, UniqueEntries
    <3>2. TheRegistry'.play[c] = {}
      BY <3>1, PlayAfterStep
    <3> QED BY <1>2, <1>7, <2>1, <3>2, PeersOfTable
  <2>2. CASE d # c /\ ListedConn(d)
    <3>1. PICK k \in DOMAIN rt_talk_list : rt_talk_info[rt_talk_list[k]].conn_id = d
      BY <2>2 DEF ListedConn
    <3>2. PICK j \in DOMAIN rt_talk_list' : old(j) = k
      BY <1>1, <1>6, <2>2, <3>1
    <3>3. TheRegistry'.play[d] = rt_talk_info[rt_talk_list[k]].play
      BY <1>5, <3>1, <3>2, PlayAfterStep
    <3>4. TheRegistry.play[d] = rt_talk_info[rt_talk_list[k]].play
      BY <3>1, PositionOfListed
    <3> QED BY <2>2, <3>3, <3>4, PeersOfTable
  <2>3. CASE d # c /\ ~ ListedConn(d)
    <3>1. \A j \in DOMAIN rt_talk_list' : rt_talk_info'[rt_talk_list'[j]].conn_id # d
      BY <1>5, <2>3 DEF ListedConn
    <3>2. TheRegistry'.play[d] = {}
      BY <3>1, PlayAfterStep
    <3> QED BY <2>3, <3>2, PlayOfUnlisted, PeersOfTable
  <2> QED BY <2>1, <2>2, <2>3
<1>10. Registry!Listed(TheRegistry, c)
  BY <1>1, PeersOfTable DEF ListedConn
<1>11. Registry!Deleted(TheRegistry, c, f)
         = [peers |-> Registry!Without(TheRegistry.peers, i), play |-> q]
  BY <1>2, <1>7, <1>10 DEF Registry!Deleted
<1>12. q = [d \in Conn |-> q[d]]
  BY PeersOfTable DEF TheRegistry
<1> HIDE DEF q
<1> QED BY <1>8, <1>9, <1>11, <1>12, RegistryEquality DEF q

LEMMA AddImplements ==
    ASSUME InsideInv, InsideInv', NEW c \in Conn, NEW f \in Flag, add_play_info(c, f)
    PROVE  \/ Registry!Add(c, f)
           \/ ~ ListedConn(c) /\ NoEntryLeft /\ TheRegistry' = TheRegistry
<1>1. ASSUME UNCHANGED vars PROVE TheRegistry' = TheRegistry
  BY <1>1 DEF vars, TheRegistry, At
<1> QED BY <1>1, MarkPlayingIsAdded, ClaimEntryIsAdded DEF add_play_info, Registry!Add

LEMMA StepImplements ==
    ASSUME InsideInv, InsideInv', [Next]_vars
    PROVE  [Registry!Next]_TheRegistry
<1>1. CASE UNCHANGED vars
  BY <1>1 DEF vars, TheRegistry, At
<1>4. CASE BehindChanges
  <2>1. PICK s \in Scan \ Slots, w \in Behind :
           rt_talk_info' = [rt_talk_info EXCEPT ![s] = w]
    BY <1>4 DEF BehindChanges
  <2>2. /\ rt_talk_list' = rt_talk_list
        /\ \A i \in DOMAIN rt_talk_list :
              rt_talk_info'[rt_talk_list[i]] = rt_talk_info[rt_talk_list[i]]
    BY <1>4, <2>1 DEF BehindChanges, InsideInv, InsideArray, Elements, TypeOK
  <2>3. \A j \in DOMAIN rt_talk_list : \A k \in 1..(j - 1) : k \in DOMAIN rt_talk_list
    BY DEF InsideInv, TypeOK
  <2>4. \A c \in Conn : At(c)' = At(c)
    BY <2>2, <2>3 DEF At
  <2>5. \A c \in Conn : \A i \in At(c) : i \in DOMAIN rt_talk_list
    BY DEF At
  <2>6. /\ TheRegistry'.peers = TheRegistry.peers
        /\ \A c \in Conn : TheRegistry'.play[c] = TheRegistry.play[c]
    BY <2>2, <2>4, <2>5 DEF TheRegistry
  <2>7. TheRegistry.play = [c \in Conn |-> TheRegistry.play[c]]
        /\ TheRegistry = [peers |-> TheRegistry.peers, play |-> TheRegistry.play]
    BY DEF TheRegistry
  <2> QED BY <2>6, <2>7, RegistryEquality
<1>2. Flag = Registry!Flag
  BY DEF Flag, Registry!Flag
<1>3. ASSUME NEW c \in Conn, NEW f \in Flag, del_play_info(c, f)
      PROVE  Registry!Del(c, f)
  <2>1. ASSUME ~ ListedConn(c), UNCHANGED vars
        PROVE  TheRegistry' = Registry!Deleted(TheRegistry, c, f)
    <3>1. TheRegistry' = TheRegistry
      BY <2>1 DEF vars, TheRegistry, At
    <3> QED BY <2>1, <3>1, PeersOfTable DEF Registry!Deleted
  <2> QED BY <1>3, <2>1, ClearPlayingIsDeleted, FreeEntryIsDeleted
          DEF del_play_info, Registry!Del
<1> QED BY <1>1, <1>2, <1>3, <1>4, AddImplements, StepIsAddOrDel DEF Registry!Next

\* What the theorems below share: the invariant, and with room InsideArray.
LEMMA TableInvariant == Spec => []TableInv
  BY InitTableInv, NextTableInv, PTL DEF Spec

LEMMA StepInside ==
    ASSUME TableInv, TableInv', InsideArray, InsideArray', [Next]_vars
    PROVE  [Registry!Next]_TheRegistry
<1>1. InsideInv
  BY InsideFacts
<1>2. InsideInv'
  <2>1. (TableInv /\ InsideArray => InsideInv)'
    BY InsideFacts, PTL
  <2> QED BY <2>1
<1> QED BY <1>1, <1>2, StepImplements

LEMMA InitRegistry == Init => Registry!Init
<1> SUFFICES ASSUME Init PROVE TheRegistry = Registry!NoPeers
  BY DEF Registry!Init
<1>1. rt_talk_list = <<>> /\ DOMAIN rt_talk_list = {}
  BY DEF Init
<1>2. [i \in DOMAIN rt_talk_list |-> rt_talk_info[rt_talk_list[i]].conn_id] = <<>>
  BY <1>1
<1>3. ASSUME NEW c \in Conn
      PROVE  UNION {rt_talk_info[rt_talk_list[i]].play : i \in At(c)} = {}
  <2>1. At(c) = {}
    BY <1>1 DEF At
  <2> QED BY <2>1
<1> QED BY <1>2, <1>3 DEF TheRegistry, Registry!NoPeers

\* With no more connections than entries, no add of a stream is lost, whatever
\* entries the scan has claimed and freed before and whatever stands behind them.
THEOREM AddsAreKept ==
    ASSUME Capacity
    PROVE  Spec => [][\A c \in Conn, f \in Flag : add_play_info(c, f) => Registry!Add(c, f)]_vars
<1>1. ASSUME TableInv, InsideArray, TableInv', InsideArray',
             NEW c \in Conn, NEW f \in Flag, add_play_info(c, f)
      PROVE  Registry!Add(c, f)
  <2>1. ASSUME ~ ListedConn(c), NoEntryLeft PROVE FALSE
    BY <1>1, <2>1, RoomForNewConn, SlotsAssumption DEF NoEntryLeft, Slots, Scan
  <2>2. InsideInv
    BY <1>1, InsideFacts
  <2>3. InsideInv'
    <3>1. (TableInv /\ InsideArray => InsideInv)'
      BY InsideFacts, PTL
    <3> QED BY <1>1, <3>1
  <2> QED BY <1>1, <2>1, <2>2, <2>3, AddImplements
<1>2. TableInv /\ TableInv' /\ InsideArray /\ InsideArray' /\ [Next]_vars
        => [\A c \in Conn, f \in Flag : add_play_info(c, f) => Registry!Add(c, f)]_vars
  BY <1>1
<1> QED BY <1>2, TableInvariant, ClaimsStayInside, PTL DEF Spec

\* For every number of phones, entries and words behind the array: as long as the
\* list is inside the array its steps are steps of the registry. No del reaches
\* another phone, no newcomer inherits a flag, and a full table evicts nobody.
THEOREM TableImplementsRegistry == Spec => ImplementsRegistry
<1>1. TableInv /\ TableInv' /\ [Next]_vars
        => [InsideArray /\ InsideArray' => [Registry!Next]_TheRegistry]_vars
  BY StepInside
<1> QED BY <1>1, InitRegistry, TableInvariant, PTL DEF Spec, ImplementsRegistry

\* With an entry for every connection nothing is excepted: the table is the
\* registry, whatever is written in the memory behind it.
THEOREM TableWithRoomIsTheRegistry == ASSUME Capacity PROVE Spec => Registry!Spec
<1>1. TableInv /\ TableInv' /\ InsideArray /\ InsideArray' /\ [Next]_vars
        => [Registry!Next]_TheRegistry
  BY StepInside
<1> QED BY <1>1, InitRegistry, TableInvariant, ClaimsStayInside, PTL DEF Spec, Registry!Spec
=============================================================================
