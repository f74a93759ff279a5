----------------------------- MODULE RtTalkInfo -----------------------------
(***************************************************************************)
(* The table of talking phones of wifi/doorbell/doorbell_app.c: a static   *)
(* array of entries, a linked list through the entries in use, and the     *)
(* add, del and find functions the call logic runs on them, each under     *)
(* rt_talk_info_head_mutex, so each is one action.                         *)
(***************************************************************************)
EXTENDS Naturals, Sequences, FiniteSets

CONSTANTS Conn,             \* connection ids (never 0 in the SDK)
          NoConn,           \* conn_id = 0: the entry is free
          Foreign,          \* a word that is not a connection id nor 0
          NSlots,           \* entries of rt_talk_info (20)
          NPast             \* entries past the array that the scan may reach

ASSUME SlotsAssumption == NSlots \in Nat \ {0} /\ NPast \in Nat
ASSUME ConnAssumption == IsFiniteSet(Conn) /\ NoConn \notin Conn
                         /\ Foreign \notin Conn /\ Foreign # NoConn

\* The array has room for every connection the SDK keeps open at once. Not an
\* assumption of the module: the properties that need it say so.
Capacity == Cardinality(Conn) <= NSlots

Flag == {"audio", "video", "device"}

VARIABLES rt_talk_info,     \* the entries: conn_id and the play flags
          rt_talk_list      \* rt_talk_info_list_head: indices in list order

vars == <<rt_talk_info, rt_talk_list>>

Slots == 1..NSlots

\* find_empty_rt_talk_info scans sizeof(rt_talk_info) entries, the size of
\* the array in bytes, so its index may run past the array.
Scan == 1..(NSlots + NPast)

Entry == [conn_id : Conn \cup {NoConn, Foreign}, play : SUBSET Flag]

Elements(s) == {s[i] : i \in DOMAIN s}

Without(s, i) == [j \in 1..(Len(s) - 1) |-> IF j < i THEN s[j] ELSE s[j + 1]]

Free == [conn_id |-> NoConn, play |-> {}]

\* What memory of somebody else may look like when it is read as an entry.
Behind == [conn_id : {NoConn, Foreign}, play : SUBSET Flag]

\* The array is zeroed at start-up; what lies behind it is anything.
Init == /\ rt_talk_info \in {t \in [Scan -> Behind] : \A s \in Slots : t[s] = Free}
        /\ rt_talk_list = <<>>

\* The owner of the memory behind the array writes it, listed there or not.
BehindChanges ==
    /\ \E s \in Scan \ Slots, w \in Behind :
          rt_talk_info' = [rt_talk_info EXCEPT ![s] = w]
    /\ UNCHANGED rt_talk_list

\* The position of connection c in the list: the first entry that matches.
At(c) == {i \in DOMAIN rt_talk_list :
            /\ rt_talk_info[rt_talk_list[i]].conn_id = c
            /\ \A j \in 1..(i - 1) : rt_talk_info[rt_talk_list[j]].conn_id # c}

\* A listed entry that its memory's owner wrote over has lost its links: no walk
\* of the list, and so no add or del, is followed any further.
ListIsWhole == \A i \in DOMAIN rt_talk_list :
                 rt_talk_info[rt_talk_list[i]].conn_id \in Conn

ListedConn(c) == \E i \in DOMAIN rt_talk_list :
                   rt_talk_info[rt_talk_list[i]].conn_id = c

\* Faulty: the scan does not stop at the first free entry.
ScanToTheEnd == {s \in Scan : /\ rt_talk_info[s].conn_id = NoConn
                              /\ \A u \in Scan : u > s => rt_talk_info[u].conn_id # NoConn}

\* The entry find_empty_rt_talk_info returns: the first one that is free.
find_empty_rt_talk_info ==
    {s \in Scan : /\ rt_talk_info[s].conn_id = NoConn
                  /\ \A u \in 1..(s - 1) : rt_talk_info[u].conn_id # NoConn}

NoEntryLeft == \A s \in Scan : rt_talk_info[s].conn_id # NoConn

\* The connection is listed: its flag is set.
MarkPlaying(i, f) ==
    /\ rt_talk_info' = [rt_talk_info EXCEPT ![rt_talk_list[i]].play = @ \cup {f}]
    /\ UNCHANGED rt_talk_list

\* Faulty: the entry after the claimed one is written too, and listed.
ClaimListsNext(s, c, f) ==
    /\ rt_talk_info' = [t \in Scan |->
                          IF t \in {s, s + 1}
                          THEN [conn_id |-> c, play |-> rt_talk_info[t].play \cup {f}]
                          ELSE rt_talk_info[t]]
    /\ rt_talk_list' = Append(rt_talk_list, s + 1)

\* The connection is new: entry s is claimed for it and appended to the list.
ClaimEntry(s, c, f) ==
    /\ rt_talk_info' = [rt_talk_info EXCEPT
                          ![s] = [conn_id |-> c, play |-> @.play \cup {f}]]
    /\ rt_talk_list' = Append(rt_talk_list, s)

\* The common body of the three add functions.
add_play_info(c, f) ==
    \/ \E i \in At(c) : MarkPlaying(i, f)
    \/ ~ ListedConn(c) /\ \E s \in find_empty_rt_talk_info : ClaimEntry(s, c, f)
    \/ ~ ListedConn(c) /\ NoEntryLeft /\ UNCHANGED vars

\* Faulty: every flag is cleared, the entry stays.
ClearAll(i, f) ==
    /\ ~ rt_talk_info[rt_talk_list[i]].play \subseteq {f}
    /\ rt_talk_info' = [rt_talk_info EXCEPT ![rt_talk_list[i]].play = {}]
    /\ UNCHANGED rt_talk_list

\* The flag is cleared and another one is left.
ClearPlaying(i, f) ==
    LET s == rt_talk_list[i]
    IN  /\ ~ rt_talk_info[s].play \subseteq {f}
        /\ rt_talk_info' = [rt_talk_info EXCEPT ![s].play = @ \ {f}]
        /\ UNCHANGED rt_talk_list

\* Faulty: the entry leaves the list and is never free again.
UnlistOnly(i, f) ==
    /\ rt_talk_info[rt_talk_list[i]].play \subseteq {f}
    /\ rt_talk_list' = Without(rt_talk_list, i)
    /\ UNCHANGED rt_talk_info

\* The flag was the last one: the entry leaves the list and is free again.
FreeEntry(i, f) ==
    LET s == rt_talk_list[i]
    IN  /\ rt_talk_info[s].play \subseteq {f}
        /\ rt_talk_info' = [rt_talk_info EXCEPT ![s] = Free]
        /\ rt_talk_list' = Without(rt_talk_list, i)

\* The common body of the three del functions.
del_play_info(c, f) ==
    \/ \E i \in At(c) : ClearPlaying(i, f) \/ FreeEntry(i, f)
    \/ ~ ListedConn(c) /\ UNCHANGED vars

add_audio_play_info(c)        == add_play_info(c, "audio")
add_video_play_info(c)        == add_play_info(c, "video")
add_device_video_play_info(c) == add_play_info(c, "device")
del_audio_play_info(c)        == del_play_info(c, "audio")
del_video_play_info(c)        == del_play_info(c, "video")
del_device_video_play_info(c) == del_play_info(c, "device")

\* The three find functions: does any listed connection play f?
find_play_info(f) ==
    \E i \in DOMAIN rt_talk_list : f \in rt_talk_info[rt_talk_list[i]].play

Next == \/ ListIsWhole /\ \E c \in Conn :
             \/ add_audio_play_info(c)
             \/ add_video_play_info(c)
             \/ add_device_video_play_info(c)
             \/ del_audio_play_info(c)
             \/ del_video_play_info(c)
             \/ del_device_video_play_info(c)
        \/ BehindChanges

Spec == Init /\ [][Next]_vars

-----------------------------------------------------------------------------
TypeOK == /\ rt_talk_info \in [Scan -> Entry]
          /\ rt_talk_list \in Seq(Scan)

\* Every listed entry is one of the array. Otherwise an entry and its links lie
\* in memory that its owner may overwrite, and the module promises nothing of the
\* list but where it was claimed.
InsideArray == Elements(rt_talk_list) \subseteq Slots

\* A connection has one entry and an entry is listed once: two add calls for
\* the same phone never split its flags over two entries.
OneEntryPerConn ==
    InsideArray =>
    \A i, j \in DOMAIN rt_talk_list :
       i # j => /\ rt_talk_list[i] # rt_talk_list[j]
                /\ rt_talk_info[rt_talk_list[i]].conn_id
                     # rt_talk_info[rt_talk_list[j]].conn_id

\* No entry of the array leaks, also after phones have been listed behind it: it
\* is taken exactly while it is listed, a listed entry plays something, and a free
\* one kept no flag that its next owner would inherit. Nothing of the kind is true
\* of a word behind the array, which brings the newcomer whatever flags it holds.
NoLeak ==
    InsideArray =>
    /\ \A s \in Slots : rt_talk_info[s].conn_id # NoConn
                          <=> s \in Elements(rt_talk_list)
    /\ \A s \in Elements(rt_talk_list) : /\ rt_talk_info[s].conn_id \in Conn
                                      /\ rt_talk_info[s].play # {}
    /\ \A s \in Slots : rt_talk_info[s].conn_id = NoConn
                          => rt_talk_info[s].play = {}

\* The scan for an empty entry is bounded by the size in bytes and runs past the
\* array.  It claims memory there only when every entry of the array is in use,
\* however the phones have come and gone before.
ClaimsPastOnlyWhenFull ==
    [][\A s \in Elements(rt_talk_list') \ Elements(rt_talk_list) :
          s \notin Slots => Slots \subseteq Elements(rt_talk_list)]_vars

\* The list and the array together are the registry the call logic uses.
TheRegistry ==
    [peers |-> [i \in DOMAIN rt_talk_list |-> rt_talk_info[rt_talk_list[i]].conn_id],
     play  |-> [c \in Conn |->
                  UNION {rt_talk_info[rt_talk_list[i]].play : i \in At(c)}]]

Registry == INSTANCE TalkRegistry WITH reg <- TheRegistry

\* While the list stays inside the array the callers see the registry of
\* TalkRegistry: a phone has one place in it, a del touches no other phone, a
\* newcomer gets the flag it asked for and no other, and one for whom no entry is
\* left changes nothing. The steps excepted are those that list a newcomer behind
\* the array, with flags nobody gave it, and those of the time it is listed there.
ImplementsRegistry ==
    /\ Registry!Init
    /\ [][InsideArray /\ InsideArray' => [Registry!Next]_TheRegistry]_vars
=============================================================================
