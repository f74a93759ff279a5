---------------------------- MODULE TalkRegistry ----------------------------
(***************************************************************************)
(* What the rest of the doorbell expects of the table of talking phones    *)
(* (wifi/doorbell/doorbell_app.c): for every connection the set of streams *)
(* it plays, and the order in which the connections were registered.  The  *)
(* table of slots and the linked list that implement it are the module     *)
(* RtTalkInfo; the call logic that uses it is the module VisualCall.       *)
(***************************************************************************)
EXTENDS Naturals, Sequences

CONSTANT Conn               \* connection ids handed out by the cloud SDK

\* The three flags of RT_TALK_INFO: the phone listens to the device, the
\* phone watches the device, the device shows the phone's picture.
Flag == {"audio", "video", "device"}

Elements(s) == {s[i] : i \in DOMAIN s}

\* s without its i-th element (list_del).
Without(s, i) == [j \in 1..(Len(s) - 1) |-> IF j < i THEN s[j] ELSE s[j + 1]]

\* A registry: the connections in the order they were listed, and what each
\* of them plays.
Registry == [peers : Seq(Conn), play : [Conn -> SUBSET Flag]]

NoPeers == [peers |-> <<>>, play |-> [c \in Conn |-> {}]]

Listed(r, c) == c \in Elements(r.peers)

Position(r, c) == CHOOSE i \in DOMAIN r.peers : r.peers[i] = c

\* add_audio_play_info, add_video_play_info, add_device_video_play_info
Added(r, c, f) ==
    [peers |-> IF Listed(r, c) THEN r.peers ELSE Append(r.peers, c),
     play  |-> [r.play EXCEPT ![c] = @ \cup {f}]]

\* del_audio_play_info, del_video_play_info, del_device_video_play_info: a
\* connection that plays nothing any more leaves the list.
Deleted(r, c, f) ==
    IF ~ Listed(r, c) THEN r
    ELSE [peers |-> IF r.play[c] \subseteq {f}
                    THEN Without(r.peers, Position(r, c))
                    ELSE r.peers,
          play  |-> [r.play EXCEPT ![c] = @ \ {f}]]

\* find_audio_play_info, find_video_play_info, find_device_video_play_info
Playing(r, f) == \E c \in Elements(r.peers) : f \in r.play[c]

-----------------------------------------------------------------------------
VARIABLE reg

Init == reg = NoPeers

Add(c, f) == reg' = Added(reg, c, f)

Del(c, f) == reg' = Deleted(reg, c, f)

Next == \E c \in Conn, f \in Flag : Add(c, f) \/ Del(c, f)

Spec == Init /\ [][Next]_reg
=============================================================================
