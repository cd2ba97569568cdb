---------------------------- MODULE BoardsProofs ----------------------------
(***************************************************************************)
(* Theorems about the card, the dialog that creates a workspace, the board *)
(* of issues, the issue panel, the quick buttons, the diff panel and the   *)
(* dialog of a pull request, for any number of requests, sockets, issues,  *)
(* agents and texts, and about all of them together.                       *)
(***************************************************************************)
EXTENDS DialogProofs

-----------------------------------------------------------------------------
(* The sockets of the card *)

Asked == {"info", "boot list", "list"}
SocketState == {"none", "connecting", "open", "closed"}

\* Boots among the requests, and lists that belong to none.
BootAt(s, n) == s[n] \in {"info", "boot list"}
Booting(s) == \E n \in DOMAIN s : BootAt(s, n)
OneBoot(s) == \A m, n \in DOMAIN s : BootAt(s, m) /\ BootAt(s, n) => m = n
NoList(s) == \A n \in DOMAIN s : s[n] # "list"

\* A request is sent.
LEMMA AskedIs ==
    ASSUME NEW s \in Seq(Asked), NEW x \in Asked
    PROVE  /\ Append(s, x) \in Seq(Asked)
           /\ Booting(s) => Booting(Append(s, x))
           /\ x # "list" => Booting(Append(s, x))
           /\ x = "list" /\ Booting(Append(s, x)) => Booting(s)
           /\ OneBoot(s) /\ (x = "list" \/ ~Booting(s)) => OneBoot(Append(s, x))
           /\ NoList(s) /\ x # "list" => NoList(Append(s, x))
<1>1. /\ DOMAIN s = 1 .. Len(s) /\ Len(s) \in Nat
      /\ DOMAIN Append(s, x) = 1 .. Len(s) + 1
      /\ \A n \in 1 .. Len(s) : Append(s, x)[n] = s[n]
      /\ Append(s, x)[Len(s) + 1] = x
  OBVIOUS
<1>2. \A n \in DOMAIN Append(s, x) : n \in DOMAIN s \/ n = Len(s) + 1
  BY <1>1
<1>3. DOMAIN s \subseteq DOMAIN Append(s, x) /\ Len(s) + 1 \in DOMAIN Append(s, x)
  BY <1>1
<1> DEFINE r == Append(s, x)
<1> HIDE DEF r
<1>4. r \in Seq(Asked)
  BY DEF r
<1>5. /\ \A n \in DOMAIN s : n \in DOMAIN r /\ r[n] = s[n]
      /\ \A n \in DOMAIN r : n \notin DOMAIN s => r[n] = x
      /\ \A m, n \in DOMAIN r : m \notin DOMAIN s /\ n \notin DOMAIN s => m = n
      /\ \E n \in DOMAIN r : r[n] = x
  BY <1>1, <1>2, <1>3 DEF r
<1>6. Booting(s) => Booting(r)
  BY <1>5 DEF Booting, BootAt
<1>7. x # "list" => Booting(r)
  BY <1>5 DEF Booting, BootAt, Asked
<1>8. x = "list" /\ Booting(r) => Booting(s)
  BY <1>5 DEF Booting, BootAt
<1>9. OneBoot(s) /\ (x = "list" \/ ~Booting(s)) => OneBoot(r)
  <2> SUFFICES ASSUME OneBoot(s), x = "list" \/ ~Booting(s), NEW m \in DOMAIN r, NEW n \in DOMAIN r,
                      BootAt(r, m), BootAt(r, n)
               PROVE  m = n
    BY DEF OneBoot
  <2>1. CASE m \in DOMAIN s /\ n \in DOMAIN s
    BY <1>5, <2>1 DEF OneBoot, BootAt
  <2>2. CASE m \notin DOMAIN s /\ n \notin DOMAIN s
    BY <1>5, <2>2
  <2>3. CASE (m \in DOMAIN s /\ n \notin DOMAIN s) \/ (n \in DOMAIN s /\ m \notin DOMAIN s)
    BY <1>5, <2>3 DEF Booting, BootAt
  <2>4. QED
    BY <2>1, <2>2, <2>3
<1>10. NoList(s) /\ x # "list" => NoList(r)
  BY <1>5 DEF NoList
<1>11. QED
  BY <1>4, <1>6, <1>7, <1>8, <1>9, <1>10 DEF r

\* The address of a boot has arrived.
LEMMA TurnedIs ==
    ASSUME NEW s \in Seq(Asked), NEW n \in DOMAIN s, s[n] = "info"
    PROVE  LET r == [s EXCEPT ![n] = "boot list"]
           IN  /\ r \in Seq(Asked) /\ Booting(r) /\ Booting(s)
               /\ OneBoot(s) => OneBoot(r)
               /\ NoList(s) => NoList(r)
<1> DEFINE r == [s EXCEPT ![n] = "boot list"]
<1>1. r \in Seq(Asked)
  <2>1. "boot list" \in Asked
    BY DEF Asked
  <2>2. /\ Len(s) \in Nat /\ DOMAIN s = 1 .. Len(s)
        /\ s \in [1 .. Len(s) -> Asked]
    OBVIOUS
  <2>3. r \in [1 .. Len(s) -> Asked]
    BY <2>1, <2>2
  <2>4. QED
    BY ZenonT(40), <2>2, <2>3, SeqDef
<1>2. DOMAIN r = DOMAIN s /\ \A m \in DOMAIN s : r[m] = IF m = n THEN "boot list" ELSE s[m]
  OBVIOUS
<1> HIDE DEF r
<1>3. \A m \in DOMAIN s : BootAt(r, m) => BootAt(s, m)
  BY <1>2 DEF BootAt
<1>4. Booting(r) /\ Booting(s)
  BY <1>2 DEF Booting, BootAt
<1>5. OneBoot(s) => OneBoot(r)
  BY <1>2, <1>3 DEF OneBoot
<1>6. NoList(s) => NoList(r)
  BY <1>2 DEF NoList
<1>7. QED
  BY <1>1, <1>4, <1>5, <1>6 DEF r

\* A request is answered.
LEMMA AnsweredAsk ==
    ASSUME NEW s \in Seq(Asked), NEW n \in DOMAIN s
    PROVE  LET r == Left(s, n)
           IN  /\ r \in Seq(Asked)
               /\ OneBoot(s) => OneBoot(r)
               /\ NoList(s) => NoList(r)
               /\ Booting(r) => Booting(s)
               /\ s[n] = "list" /\ Booting(s) => Booting(r)
               /\ OneBoot(s) /\ BootAt(s, n) => ~Booting(r)
               /\ Len(s) <= 1 => r = <<>>
<1> DEFINE r == Left(s, n)
<1>1. /\ r \in Seq(Asked) /\ Len(r) = Len(s) - 1
      /\ \A m \in 1 .. Len(s) - 1 : r[m] = IF m < n THEN s[m] ELSE s[m + 1]
  BY LeftIs
<1>2. /\ \A m \in DOMAIN r : \E l \in DOMAIN s \ {n} : r[m] = s[l]
      /\ \A l \in DOMAIN s \ {n} : \E m \in DOMAIN r : r[m] = s[l]
  BY LeftOthers
<1> HIDE DEF r
<1>3. ASSUME OneBoot(s) PROVE OneBoot(r)
  <2> SUFFICES ASSUME NEW m \in DOMAIN r, NEW l \in DOMAIN r, BootAt(r, m), BootAt(r, l)
               PROVE  m = l
    BY DEF OneBoot
  <2>1. /\ m \in 1 .. Len(s) - 1 /\ l \in 1 .. Len(s) - 1 /\ DOMAIN s = 1 .. Len(s)
        /\ n \in 1 .. Len(s) /\ Len(s) \in Nat
    BY <1>1
  <2>2. /\ r[m] = s[IF m < n THEN m ELSE m + 1] /\ r[l] = s[IF l < n THEN l ELSE l + 1]
    BY <1>1, <2>1
  <2>3. /\ (IF m < n THEN m ELSE m + 1) \in DOMAIN s
        /\ (IF l < n THEN l ELSE l + 1) \in DOMAIN s
    BY <2>1
  <2>4. (IF m < n THEN m ELSE m + 1) = (IF l < n THEN l ELSE l + 1)
    BY <1>3, <2>2, <2>3 DEF OneBoot, BootAt
  <2>5. QED
    BY <2>1, <2>4
<1>4. NoList(s) => NoList(r)
  BY <1>2 DEF NoList
<1>5. Booting(r) => Booting(s)
  BY <1>2 DEF Booting, BootAt
<1>6. ASSUME s[n] = "list", Booting(s) PROVE Booting(r)
  <2>1. PICK l \in DOMAIN s : BootAt(s, l)
    BY <1>6 DEF Booting
  <2>2. l # n
    BY <1>6, <2>1 DEF BootAt
  <2>3. PICK m \in DOMAIN r : r[m] = s[l]
    BY <1>2, <2>2
  <2>4. QED
    BY <2>1, <2>3 DEF Booting, BootAt
<1>7. ASSUME OneBoot(s), BootAt(s, n), Booting(r) PROVE FALSE
  <2>1. PICK m \in DOMAIN r : BootAt(r, m)
    BY <1>7 DEF Booting
  <2>2. PICK l \in DOMAIN s \ {n} : r[m] = s[l]
    BY <1>2
  <2>3. QED
    BY <1>7, <2>1, <2>2 DEF OneBoot, BootAt
<1>8. ASSUME Len(s) <= 1 PROVE r = <<>>
  <2>1. Len(r) = 0
    BY <1>1, <1>8
  <2>2. QED
    BY <1>1, <2>1
<1>9. QED
  BY <1>1, <1>3, <1>4, <1>5, <1>6, <1>7, <1>8 DEF r

CardType ==
    /\ session \in Nat \ {0} /\ listed \in Nat /\ strays \in Nat
    /\ attached \in BOOLEAN /\ blocked \in BOOLEAN /\ selected \in BOOLEAN
    /\ board \in SocketState /\ boardOn \in BOOLEAN
    /\ polling \in BOOLEAN /\ boardRetry \in BOOLEAN
    /\ pane \in [state : SocketState, of : Nat] /\ paneOn \in BOOLEAN
    /\ dialogPolling \in BOOLEAN /\ paneRetry \in BOOLEAN
    /\ asks \in Seq(Asked)
    /\ overlapped \in BOOLEAN /\ severed \in BOOLEAN

\* A refused card has no list and no board socket.
Refused == blocked => listed = 0 /\ board = "none"

\* The dialog has the socket of the session it shows, or none.
PaneFits ==
    /\ pane.state # "none" => pane.of = K!SelectedSession(selected, listed) /\ pane.of # 0
    /\ DialogIsWatched

\* Without a page, during a boot and under a refusal the board has no socket, polls and
\* timer; a poll from before a refusal could end it too soon.
Unlinked == board = "none" /\ ~polling /\ ~boardRetry
BoardKept ==
    /\ strays = 0
    /\ OneBoot(asks)
    /\ ~attached \/ blocked \/ Booting(asks) => Unlinked
    /\ blocked => NoList(asks)
    /\ boardRetry => polling
    /\ attached /\ ~blocked /\ ~Booting(asks) => polling \/ (boardOn /\ board = "open")

CardInv == CardType /\ Refused /\ PaneFits /\ (~overlapped => BoardKept)

\* What the dialog follows.
LEMMA FollowIs ==
    ASSUME CardInv, NEW on \in BOOLEAN, NEW to \in Nat, NEW refused \in BOOLEAN,
           selected' = on, listed' = to, blocked' = refused, K!Follow(on, to, refused),
           refused => to = 0, attached' = attached, severed' \in {severed, TRUE}
    PROVE  /\ pane' \in [state : SocketState, of : Nat] /\ paneOn' \in BOOLEAN
           /\ dialogPolling' \in BOOLEAN /\ paneRetry' \in BOOLEAN
           /\ PaneFits'
<1> DEFINE old == K!SelectedSession(selected, listed)
           new == K!SelectedSession(on, to)
<1>1. old \in Nat /\ new \in Nat
  BY DEF K!SelectedSession, CardInv, CardType
<1>2. CASE new = old
  <2>1. UNCHANGED <<pane, paneOn, dialogPolling, paneRetry>>
    BY <1>2 DEF K!Follow, K!paneVars
  <2>2. DialogIsWatched'
    BY <1>2, <2>1 DEF DialogIsWatched, K!DialogIsWatched, K!SelectedSession, CardInv,
       PaneFits, Refused, CardType
  <2>3. QED
    BY <1>2, <2>1, <2>2 DEF CardInv, CardType, PaneFits, K!SelectedSession
<1>3. CASE new # old
  <2>1. /\ K!RestartPane(new, refused) /\ dialogPolling' = (on /\ ~paneOn')
        /\ paneRetry' = paneRetry
    BY <1>3 DEF K!Follow, K!UpdateDialogPolling
  <2>2. CASE refused \/ new = 0
    <3>1. pane' = [state |-> "none", of |-> 0] /\ paneOn' = (paneOn /\ refused)
      BY <2>1, <2>2 DEF K!RestartPane, K!Closed
    <3>2. new = 0
      BY <2>2 DEF K!SelectedSession
    <3>3. DialogIsWatched'
      BY <3>2 DEF DialogIsWatched, K!DialogIsWatched, K!SelectedSession
    <3>4. QED
      BY <2>1, <3>1, <3>3 DEF PaneFits, SocketState, CardInv, CardType
  <2>3. CASE ~refused /\ new # 0
    <3>1. pane' = [state |-> "connecting", of |-> new] /\ paneOn' = paneOn
      BY <2>1, <2>3 DEF K!RestartPane
    <3>2. on = TRUE /\ new = to
      BY <2>3 DEF K!SelectedSession
    <3>3. DialogIsWatched'
      BY <2>1, <3>1, <3>2 DEF DialogIsWatched, K!DialogIsWatched, K!SelectedSession
    <3>4. QED
      BY <1>1, <2>1, <2>3, <3>1, <3>2, <3>3
      DEF PaneFits, SocketState, CardInv, CardType, K!SelectedSession
  <2>4. QED
    BY <2>2, <2>3
<1>4. QED
  BY <1>2, <1>3

\* The requests that are boots.
LEMMA BootsAre == K!Boots = {} <=> ~Booting(asks)
  BY DEF K!Boots, Booting, BootAt

\* The request that was answered is taken out.
LEMMA SameLeft == \A n : K!RemoveAt(asks, n) = Left(asks, n)
  BY DEF K!RemoveAt, Left

\* A boot begins: the card has nothing until it ends.
LEMMA CardStarts ==
    ASSUME CardInv, K!Start, attached' = TRUE,
           UNCHANGED <<session, blocked, listed, selected, strays>>
    PROVE  CardInv'
<1>1. /\ asks' = Append(asks, "info") /\ "info" \in Asked
      /\ polling' = FALSE /\ dialogPolling' = FALSE /\ boardRetry' = FALSE /\ paneRetry' = FALSE
      /\ board' = "none" /\ boardOn' = FALSE
      /\ pane' = [state |-> "none", of |-> 0] /\ paneOn' = FALSE
      /\ overlapped' = (overlapped \/ K!Boots # {})
      /\ severed' = (K!SelectedSession(selected, listed) # 0)
  BY DEF K!Start, K!StopSync, K!Ask, K!Closed, Asked
<1>2. asks' \in Seq(Asked) /\ Booting(asks')
  BY <1>1, AskedIs DEF CardInv, CardType
<1>3. CardType'
  BY <1>1, <1>2 DEF CardInv, CardType, SocketState
<1>4. Refused'
  BY <1>1 DEF CardInv, Refused
<1>5. PaneFits'
  <2>1. DialogIsWatched'
    BY <1>1 DEF DialogIsWatched, K!DialogIsWatched, K!SelectedSession
  <2>2. QED
    BY <1>1, <2>1 DEF PaneFits
<1>6. ASSUME ~overlapped' PROVE BoardKept'
  <2>1. ~overlapped /\ ~Booting(asks)
    BY <1>1, <1>6, BootsAre
  <2>2. BoardKept
    BY <2>1 DEF CardInv
  <2>3. OneBoot(asks')
    BY <1>1, <2>1, <2>2, AskedIs DEF BoardKept, CardInv, CardType
  <2>4. blocked => NoList(asks')
    BY <1>1, <2>2, AskedIs DEF BoardKept, CardInv, CardType
  <2>5. QED
    BY <1>1, <1>2, <2>2, <2>3, <2>4 DEF BoardKept, Unlinked
<1>7. QED
  BY <1>3, <1>4, <1>5, <1>6 DEF CardInv

\* The card is put on its page, set up again, or taken away.
LEMMA PlaceSteps ==
    ASSUME CardInv, K!Attach \/ K!Configure \/ K!Detach
    PROVE  CardInv'
<1>1. CASE K!Attach \/ K!Configure
  BY <1>1, CardStarts DEF K!Attach, K!Configure, CardInv, CardType
<1>2. CASE K!Detach
  <2>1. /\ attached' = FALSE
        /\ polling' = FALSE /\ dialogPolling' = FALSE /\ boardRetry' = FALSE /\ paneRetry' = FALSE
        /\ board' = "none" /\ boardOn' = FALSE
        /\ pane' = [state |-> "none", of |-> 0] /\ paneOn' = FALSE
        /\ severed' = (severed \/ asks # <<>>)
        /\ UNCHANGED <<session, blocked, listed, selected, strays, asks, overlapped>>
    BY <1>2 DEF K!Detach, K!StopSync, K!Closed
  <2>2. CardType'
    BY <2>1 DEF CardInv, CardType, SocketState
  <2>3. Refused' /\ PaneFits'
    BY <2>1 DEF CardInv, Refused, PaneFits, DialogIsWatched, K!DialogIsWatched
  <2>4. ~overlapped' => BoardKept'
    BY <2>1 DEF CardInv, BoardKept, Unlinked
  <2>5. QED
    BY <2>2, <2>3, <2>4 DEF CardInv
<1>3. QED
  BY <1>1, <1>2

\* Steps that leave the board and its requests alone.
LEMMA BoardAlone ==
    ASSUME CardInv, UNCHANGED <<attached, blocked, strays, asks, board, boardOn, polling,
                                boardRetry, overlapped>>
    PROVE  ~overlapped' => BoardKept'
  BY DEF CardInv, BoardKept, Unlinked

\* The dialog is opened and closed, and its session socket opens, breaks and is opened
\* again.
LEMMA DialogSteps ==
    ASSUME CardInv,
           \/ K!OpenDialog \/ K!CloseDialog \/ K!Snapshot \/ K!SessionChanges
           \/ K!PaneOpens \/ K!PaneCloses \/ K!PaneRetry
    PROVE  CardInv'
<1>1. UNCHANGED <<attached, blocked, strays, asks, board, boardOn, polling, boardRetry, overlapped>>
  BY DEF K!OpenDialog, K!CloseDialog, K!Snapshot, K!SessionChanges, K!PaneOpens, K!PaneCloses,
         K!PaneRetry, K!boardVars
<1>2. ~overlapped' => BoardKept'
  BY <1>1, BoardAlone
<1>3. Refused /\ CardType /\ PaneFits
  BY DEF CardInv
<1>4. CASE K!OpenDialog
  <2>1. ~blocked
    BY <1>3, <1>4 DEF K!OpenDialog, Refused
  <2>2. /\ selected' = TRUE /\ listed' = listed /\ session' = session /\ severed' = severed
        /\ K!Follow(TRUE, listed, blocked)
    BY <1>4 DEF K!OpenDialog
  <2>3. /\ pane' \in [state : SocketState, of : Nat] /\ paneOn' \in BOOLEAN
        /\ dialogPolling' \in BOOLEAN /\ paneRetry' \in BOOLEAN
        /\ PaneFits'
    BY <1>1, <1>3, <2>1, <2>2, FollowIs DEF CardType
  <2>4. QED
    BY <1>1, <1>2, <1>3, <2>2, <2>3 DEF CardInv, CardType, Refused
<1>5. CASE K!CloseDialog
  <2>1. /\ selected' = FALSE /\ listed' = listed /\ session' = session
        /\ K!Follow(FALSE, listed, blocked) /\ severed' = (severed /\ ~attached)
    BY <1>5 DEF K!CloseDialog
  <2>2. K!SelectedSession(FALSE, listed) = 0
    BY DEF K!SelectedSession
  <2>3. \/ UNCHANGED <<pane, paneOn, dialogPolling, paneRetry>>
           /\ K!SelectedSession(selected, listed) = 0
        \/ /\ pane' = [state |-> "none", of |-> 0] /\ paneOn' = (paneOn /\ blocked)
           /\ dialogPolling' = FALSE /\ paneRetry' = paneRetry
    BY <2>1, <2>2 DEF K!Follow, K!RestartPane, K!Closed, K!UpdateDialogPolling, K!paneVars
  <2>4. pane' \in [state : SocketState, of : Nat] /\ pane'.state = "none"
    BY <1>3, <2>3 DEF CardType, PaneFits, SocketState
  <2>5. PaneFits'
    BY <2>1, <2>4 DEF PaneFits, DialogIsWatched, K!DialogIsWatched, K!SelectedSession
  <2>6. QED
    BY <1>1, <1>2, <1>3, <2>1, <2>3, <2>4, <2>5 DEF CardInv, CardType, Refused
<1>6. CASE K!Snapshot
  <2>1. ~blocked
    BY <1>3, <1>6 DEF K!Snapshot, Refused
  <2>2. /\ selected' = selected /\ listed' = session /\ session' = session /\ severed' = severed
        /\ K!Follow(selected, session, blocked)
    BY <1>6 DEF K!Snapshot
  <2>3. /\ pane' \in [state : SocketState, of : Nat] /\ paneOn' \in BOOLEAN
        /\ dialogPolling' \in BOOLEAN /\ paneRetry' \in BOOLEAN
        /\ PaneFits'
    BY <1>1, <1>3, <2>1, <2>2, FollowIs DEF CardType
  <2>4. QED
    BY <1>1, <1>2, <1>3, <2>1, <2>2, <2>3 DEF CardInv, CardType, Refused
<1>7. CASE K!SessionChanges
  <2>1. /\ session' = session + 1
        /\ UNCHANGED <<listed, selected, pane, paneOn, dialogPolling, paneRetry, severed>>
    BY <1>7 DEF K!SessionChanges, K!paneVars
  <2>2. PaneFits'
    BY <1>1, <1>3, <2>1 DEF PaneFits, DialogIsWatched, K!DialogIsWatched, K!SelectedSession
  <2>3. QED
    BY <1>1, <1>2, <1>3, <2>1, <2>2 DEF CardInv, CardType, Refused
<1>8. CASE K!PaneOpens
  <2>1. /\ pane.state = "connecting" /\ pane' = [pane EXCEPT !.state = "open"]
        /\ paneOn' = TRUE /\ dialogPolling' = FALSE /\ paneRetry' = FALSE
        /\ UNCHANGED <<session, listed, selected, severed>>
    BY <1>8 DEF K!PaneOpens
  <2>2. pane' \in [state : SocketState, of : Nat] /\ pane'.state = "open" /\ pane'.of = pane.of
    BY <1>3, <2>1 DEF CardType, SocketState
  <2>3. PaneFits'
    BY <1>1, <1>3, <2>1, <2>2 DEF PaneFits, DialogIsWatched, K!DialogIsWatched, K!SelectedSession
  <2>4. QED
    BY <1>1, <1>2, <1>3, <2>1, <2>2, <2>3 DEF CardInv, CardType, Refused
<1>9. CASE K!PaneCloses
  <2>1. /\ pane.state # "none" /\ pane' = [pane EXCEPT !.state = "closed"]
        /\ paneOn' = FALSE /\ dialogPolling' = selected /\ paneRetry' = (paneRetry \/ ~blocked)
        /\ UNCHANGED <<session, listed, selected, severed>>
    BY <1>3, <1>9 DEF K!PaneCloses, K!UpdateDialogPolling, CardType
  <2>2. pane' \in [state : SocketState, of : Nat] /\ pane'.of = pane.of
    BY <1>3, <2>1 DEF CardType, SocketState
  <2>3. PaneFits'
    BY <1>1, <1>3, <2>1, <2>2 DEF PaneFits, DialogIsWatched, K!DialogIsWatched, K!SelectedSession
  <2>4. QED
    BY <1>1, <1>2, <1>3, <2>1, <2>2, <2>3 DEF CardInv, CardType, Refused
<1>10. CASE K!PaneRetry
  <2>1. /\ paneRetry' = FALSE /\ K!RestartPane(K!SelectedSession(selected, listed), blocked)
        /\ UNCHANGED <<session, listed, selected, dialogPolling, severed>>
    BY <1>10 DEF K!PaneRetry
  <2>2. /\ K!SelectedSession(selected, listed) \in Nat
        /\ K!SelectedSession(selected, listed) \in {0, listed}
    BY <1>3 DEF CardType, K!SelectedSession
  <2>3. CASE blocked \/ K!SelectedSession(selected, listed) = 0
    <3>1. pane' = [state |-> "none", of |-> 0] /\ paneOn' = (paneOn /\ blocked)
      BY <2>1, <2>3 DEF K!RestartPane, K!Closed
    <3>2. PaneFits'
      BY <1>1, <2>1, <2>3, <3>1 DEF PaneFits, DialogIsWatched, K!DialogIsWatched, K!SelectedSession
    <3>3. QED
      BY <1>1, <1>2, <1>3, <2>1, <3>1, <3>2 DEF CardInv, CardType, Refused, SocketState
  <2>4. CASE ~blocked /\ K!SelectedSession(selected, listed) # 0
    <3>1. /\ pane' = [state |-> "connecting", of |-> K!SelectedSession(selected, listed)]
          /\ paneOn' = paneOn
      BY <2>1, <2>4 DEF K!RestartPane
    <3>2. K!SelectedSession(selected, listed)' = K!SelectedSession(selected, listed)
      BY <2>1 DEF K!SelectedSession
    <3>3. PaneFits'
      BY <1>1, <1>3, <2>1, <2>2, <2>4, <3>1, <3>2
      DEF PaneFits, DialogIsWatched, K!DialogIsWatched
    <3>4. CardType'
      <4>1. /\ pane' \in [state : SocketState, of : Nat] /\ paneOn' \in BOOLEAN
            /\ paneRetry' \in BOOLEAN
        BY <1>3, <2>1, <2>2, <3>1 DEF CardType, SocketState
      <4>2. QED
        BY <1>1, <1>2, <1>3, <2>1, <4>1 DEF CardType
    <3>5. QED
      BY <1>1, <1>2, <1>3, <2>1, <3>3, <3>4 DEF CardInv, Refused
  <2>5. QED
    BY <2>3, <2>4
<1>11. QED
  BY <1>4, <1>5, <1>6, <1>7, <1>8, <1>9, <1>10

\* The board is polled, and its socket opens, breaks and is opened again.
LEMMA BoardSteps ==
    ASSUME CardInv, K!Poll \/ K!BoardOpens \/ K!BoardCloses \/ K!BoardRetry
    PROVE  CardInv'
<1>1. UNCHANGED <<session, attached, blocked, listed, selected, pane, paneOn, dialogPolling,
                  paneRetry, overlapped, severed>>
  BY DEF K!Poll, K!BoardOpens, K!BoardCloses, K!BoardRetry, K!paneVars, K!boardVars
<1>2. CardType /\ Refused /\ PaneFits
  BY DEF CardInv
<1>3. PaneFits'
  BY <1>1, <1>2 DEF PaneFits, DialogIsWatched, K!DialogIsWatched, K!SelectedSession
<1>4. CASE K!Poll
  <2>1. /\ polling /\ asks' = Append(asks, "list") /\ "list" \in Asked
        /\ UNCHANGED <<board, boardOn, polling, boardRetry, strays>>
    BY <1>4 DEF K!Poll, K!Ask, K!boardVars, Asked
  <2>2. asks' \in Seq(Asked)
    BY <1>2, <2>1, AskedIs DEF CardType
  <2>3. ASSUME ~overlapped PROVE BoardKept'
    <3>1. BoardKept /\ attached /\ ~blocked /\ ~Booting(asks)
      BY <2>1, <2>3 DEF CardInv, BoardKept, Unlinked
    <3>2. OneBoot(asks') /\ ~Booting(asks')
      BY <1>2, <2>1, <3>1, AskedIs DEF BoardKept, CardType
    <3>3. QED
      BY <1>1, <2>1, <3>1, <3>2 DEF BoardKept
  <2>4. QED
    BY <1>1, <1>2, <1>3, <2>1, <2>2, <2>3 DEF CardInv, CardType, Refused
<1>5. CASE K!BoardOpens
  <2>1. /\ board = "connecting" /\ board' = "open" /\ boardOn' = TRUE
        /\ polling' = FALSE /\ boardRetry' = FALSE /\ UNCHANGED <<asks, strays>>
    BY <1>5 DEF K!BoardOpens
  <2>2. ASSUME ~overlapped PROVE BoardKept'
    <3>1. BoardKept /\ attached /\ ~blocked /\ ~Booting(asks)
      BY <2>1, <2>2 DEF CardInv, BoardKept, Unlinked
    <3>2. QED
      BY <1>1, <2>1, <3>1 DEF BoardKept
  <2>3. QED
    BY <1>1, <1>2, <1>3, <2>1, <2>2 DEF CardInv, CardType, Refused, SocketState
<1>6. CASE K!BoardCloses
  <2>1. /\ board # "none" /\ board' = "closed" /\ boardOn' = FALSE
        /\ asks' = Append(asks, "list") /\ "list" \in Asked
        /\ polling' = TRUE /\ boardRetry' = (boardRetry \/ ~blocked) /\ strays' = strays
    BY <1>6 DEF K!BoardCloses, K!FallBack, K!Ask, Asked
  <2>2. asks' \in Seq(Asked)
    BY <1>2, <2>1, AskedIs DEF CardType
  <2>3. ASSUME ~overlapped PROVE BoardKept'
    <3>1. BoardKept /\ attached /\ ~blocked /\ ~Booting(asks)
      BY <2>1, <2>3 DEF CardInv, BoardKept, Unlinked
    <3>2. OneBoot(asks') /\ ~Booting(asks')
      BY <1>2, <2>1, <3>1, AskedIs DEF BoardKept, CardType
    <3>3. QED
      BY <1>1, <2>1, <3>1, <3>2 DEF BoardKept
  <2>4. QED
    BY <1>1, <1>2, <1>3, <2>1, <2>2, <2>3 DEF CardInv, CardType, Refused, SocketState
<1>7. CASE K!BoardRetry
  <2>1. /\ boardRetry /\ boardRetry' = FALSE /\ UNCHANGED <<asks, boardOn, polling>>
        /\ IF blocked THEN board' = "none" /\ strays' = strays
                      ELSE board' = "connecting" /\ strays' = strays + 0
    BY <1>7 DEF K!BoardRetry, K!ConnectBoard
  <2>2. strays' = strays
    BY <1>2, <2>1 DEF CardType
  <2>3. ASSUME ~overlapped PROVE BoardKept'
    <3>1. BoardKept /\ attached /\ ~blocked /\ ~Booting(asks) /\ polling
      BY <2>1, <2>3 DEF CardInv, BoardKept, Unlinked
    <3>2. QED
      BY <1>1, <2>1, <2>2, <3>1 DEF BoardKept
  <2>4. QED
    <3>1. board' \in SocketState /\ (blocked => board' = "none")
      BY <2>1 DEF SocketState
    <3>2. CardType'
      BY <1>1, <1>2, <2>1, <2>2, <3>1 DEF CardType
    <3>3. Refused'
      BY <1>1, <1>2, <3>1 DEF Refused
    <3>4. QED
      BY <1>1, <1>3, <2>3, <3>2, <3>3 DEF CardInv
<1>8. QED
  BY <1>4, <1>5, <1>6, <1>7

\* The address of the server arrives, or a list, or none.
LEMMA AnswerSteps ==
    ASSUME CardInv, NEW n \in DOMAIN asks,
           K!InfoArrives(n) \/ K!ListArrives(n) \/ K!ListFails(n) \/ K!ListRefused(n)
    PROVE  CardInv'
<1>1. CardType /\ Refused /\ PaneFits
  BY DEF CardInv
<1> DEFINE rest == Left(asks, n)
<1>2. /\ rest \in Seq(Asked)
      /\ OneBoot(asks) => OneBoot(rest)
      /\ NoList(asks) => NoList(rest)
      /\ Booting(rest) => Booting(asks)
      /\ asks[n] = "list" /\ Booting(asks) => Booting(rest)
      /\ OneBoot(asks) /\ BootAt(asks, n) => ~Booting(rest)
      /\ Len(asks) <= 1 => rest = <<>>
  BY <1>1, AnsweredAsk DEF CardType
<1>3. K!RemoveAt(asks, n) = rest
  BY SameLeft
<1> HIDE DEF rest
<1>4. CASE K!InfoArrives(n)
  <2>1. /\ asks[n] = "info" /\ asks' = [asks EXCEPT ![n] = "boot list"]
        /\ UNCHANGED <<session, attached, blocked, listed, selected, board, boardOn, polling,
                       boardRetry, pane, paneOn, dialogPolling, paneRetry, strays, overlapped,
                       severed>>
    BY <1>4 DEF K!InfoArrives, K!boardVars, K!paneVars
  <2>2. /\ asks' \in Seq(Asked) /\ Booting(asks') /\ Booting(asks)
        /\ OneBoot(asks) => OneBoot(asks')
        /\ NoList(asks) => NoList(asks')
    BY <1>1, <2>1, TurnedIs DEF CardType
  <2>3. CardType' /\ Refused'
    <3>1. CardType'
      BY <1>1, <2>1, <2>2 DEF CardType
    <3>2. Refused'
      BY <1>1, <2>1 DEF Refused
    <3>3. QED
      BY <3>1, <3>2
  <2>4. PaneFits'
    BY <1>1, <2>1 DEF PaneFits, DialogIsWatched, K!DialogIsWatched, K!SelectedSession
  <2>5. ~overlapped' => BoardKept'
    BY <2>1, <2>2 DEF CardInv, BoardKept, Unlinked
  <2>6. QED
    BY <2>3, <2>4, <2>5 DEF CardInv
\* What the end of a boot does to the board.
<1>5. ASSUME NEW access, K!Boot(n, access), asks' = rest, ~overlapped, attached' = attached,
             blocked' \in BOOLEAN, access \in BOOLEAN, blocked' => blocked,
             access <=> ~blocked', asks[n] \in {"boot list", "list"},
             UNCHANGED <<boardOn, boardRetry>>
      PROVE  BoardKept'
  <2>1. BoardKept
    BY <1>5 DEF CardInv
  <2>2. CASE asks[n] = "boot list" /\ attached /\ access
    <3>1. BootAt(asks, n) /\ Booting(asks) /\ ~Booting(rest) /\ OneBoot(rest)
      BY <1>2, <2>1, <2>2 DEF BoardKept, BootAt, Booting
    <3>2. Unlinked
      BY <2>1, <3>1 DEF BoardKept
    <3>3. board' = "connecting" /\ strays' = strays + 0 /\ polling' = TRUE
      BY <1>5, <2>2, <3>2 DEF K!Boot, K!ConnectBoard, Unlinked
    <3>4. ~blocked' /\ attached'
      BY <1>5, <2>2
    <3>5. strays' = 0
      BY <2>1, <3>3 DEF BoardKept
    <3>6. OneBoot(asks') /\ ~Booting(asks') /\ polling'
      BY <1>5, <3>1, <3>3
    <3>7. QED
      BY <3>4, <3>5, <3>6 DEF BoardKept
  <2>3. CASE ~(asks[n] = "boot list" /\ attached /\ access)
    <3>1. UNCHANGED <<board, strays, polling>>
      BY <1>5, <2>3 DEF K!Boot
    <3>2. OneBoot(rest) /\ (Booting(rest) => Booting(asks)) /\ (NoList(asks) => NoList(rest))
      BY <1>2, <2>1 DEF BoardKept
    <3>3. ASSUME attached, ~blocked', ~Booting(rest)
          PROVE  polling \/ (boardOn /\ board = "open")
      <4>1. asks[n] = "list" /\ ~Booting(asks)
        BY <1>2, <1>5, <2>3, <3>3
      <4>2. ~blocked
        BY <2>1, <4>1 DEF BoardKept, NoList
      <4>3. QED
        BY <2>1, <3>3, <4>1, <4>2 DEF BoardKept
    <3>4. strays' = 0 /\ OneBoot(asks') /\ (boardRetry' => polling')
      BY <1>5, <2>1, <3>1, <3>2 DEF BoardKept
    <3>5. ~attached' \/ blocked' \/ Booting(asks') => Unlinked'
      <4>1. ~attached' \/ blocked' \/ Booting(asks') => ~attached \/ blocked \/ Booting(asks)
        BY <1>5, <3>2
      <4>2. QED
        BY <1>5, <2>1, <3>1, <4>1 DEF BoardKept, Unlinked
    <3>6. blocked' => NoList(asks')
      BY <1>5, <2>1, <3>2 DEF BoardKept
    <3>7. attached' /\ ~blocked' /\ ~Booting(asks') => polling' \/ (boardOn' /\ board' = "open")
      BY <1>5, <3>1, <3>3
    <3>8. QED
      BY <3>4, <3>5, <3>6, <3>7 DEF BoardKept
  <2>4. QED
    BY <2>2, <2>3
<1>6. ASSUME NEW access \in BOOLEAN, K!Boot(n, access)
      PROVE  /\ board' \in SocketState /\ polling' \in BOOLEAN /\ strays' \in Nat
             /\ ~access => board' = board
  <2>1. board' \in SocketState
    BY <1>1, <1>6 DEF CardType, SocketState, K!Boot, K!ConnectBoard
  <2>2. polling' \in BOOLEAN
    BY <1>1, <1>6 DEF CardType, K!Boot, K!ConnectBoard
  <2>3. strays' \in {strays, strays + 0, strays + 1}
    BY <1>6 DEF K!Boot, K!ConnectBoard
  <2>4. strays' \in Nat
    BY <1>1, <2>3 DEF CardType
  <2>5. QED
    BY <1>6, <2>1, <2>2, <2>4 DEF K!Boot
<1>7. CASE K!ListArrives(n)
  <2>1. /\ asks[n] \in {"boot list", "list"} /\ asks' = rest
        /\ listed' = session /\ blocked' = FALSE
        /\ K!Follow(selected, session, FALSE) /\ K!Boot(n, TRUE)
        /\ UNCHANGED <<session, attached, selected, boardOn, boardRetry, overlapped, severed>>
    BY <1>3, <1>7 DEF K!ListArrives
  <2>2. /\ pane' \in [state : SocketState, of : Nat] /\ paneOn' \in BOOLEAN
        /\ dialogPolling' \in BOOLEAN /\ paneRetry' \in BOOLEAN
        /\ PaneFits'
    BY <1>1, <2>1, FollowIs DEF CardType
  <2>3. ~overlapped => BoardKept'
    BY <1>5, <2>1
  <2>4. board' \in SocketState /\ polling' \in BOOLEAN /\ strays' \in Nat
    BY <1>1, <1>6, <2>1
  <2>5. QED
    BY <1>1, <1>2, <2>1, <2>2, <2>3, <2>4 DEF CardInv, CardType, Refused
<1>8. CASE K!ListFails(n)
  <2>1. /\ asks[n] \in {"boot list", "list"} /\ asks' = rest
        /\ listed' = 0 /\ blocked' = blocked
        /\ K!Follow(selected, 0, blocked) /\ K!Boot(n, ~blocked)
        /\ UNCHANGED <<session, attached, selected, boardOn, boardRetry, overlapped, severed>>
    BY <1>3, <1>8 DEF K!ListFails
  <2>2. /\ pane' \in [state : SocketState, of : Nat] /\ paneOn' \in BOOLEAN
        /\ dialogPolling' \in BOOLEAN /\ paneRetry' \in BOOLEAN
        /\ PaneFits'
    BY <1>1, <2>1, FollowIs DEF CardType
  <2>3. ~overlapped => BoardKept'
    BY <1>1, <1>5, <2>1 DEF CardType
  <2>4. board' \in SocketState /\ polling' \in BOOLEAN /\ strays' \in Nat
        /\ (blocked => board' = board)
    BY <1>1, <1>6, <2>1 DEF CardType
  <2>5. QED
    BY <1>1, <1>2, <2>1, <2>2, <2>3, <2>4 DEF CardInv, CardType, Refused
<1>9. CASE K!ListRefused(n)
  <2>1. /\ asks' = rest /\ listed' = 0 /\ blocked' = TRUE
        /\ polling' = FALSE /\ boardRetry' = FALSE /\ paneRetry' = FALSE
        /\ board' = "none" /\ boardOn' = FALSE
        /\ pane' = [state |-> "none", of |-> 0] /\ paneOn' = FALSE
        /\ dialogPolling' = (K!SelectedSession(selected, listed) # 0)
        /\ overlapped' = (overlapped \/ Len(asks) > 1)
        /\ UNCHANGED <<session, attached, selected, strays, severed>>
    BY <1>3, <1>9 DEF K!ListRefused, K!Closed
  <2>2. CardType' /\ Refused'
    BY <1>1, <1>2, <2>1 DEF CardType, Refused, SocketState
  <2>3. PaneFits'
    BY <2>1 DEF PaneFits, DialogIsWatched, K!DialogIsWatched, K!SelectedSession
  <2>4. ASSUME ~overlapped' PROVE BoardKept'
    <3>1. ~overlapped /\ rest = <<>>
      <4>1. Len(asks) \in Nat
        BY <1>1 DEF CardType
      <4>2. ~overlapped /\ ~(Len(asks) > 1)
        BY <2>1, <2>4, Zenon
      <4>3. Len(asks) <= 1
        BY <4>1, <4>2
      <4>4. QED
        BY <1>2, <4>2, <4>3
    <3>2. OneBoot(rest) /\ NoList(rest)
      BY <3>1 DEF OneBoot, NoList
    <3>3. QED
      BY <2>1, <3>1, <3>2 DEF CardInv, BoardKept, Unlinked
  <2>5. QED
    BY <2>2, <2>3, <2>4 DEF CardInv
<1>10. QED
  BY <1>4, <1>7, <1>8, <1>9

\* Every step of the card keeps it.
LEMMA NextCard == CardInv /\ [K!CardNext]_(K!cardVars) => CardInv'
<1> SUFFICES ASSUME CardInv, [K!CardNext]_(K!cardVars) PROVE CardInv'
  OBVIOUS
<1>1. CASE UNCHANGED K!cardVars
  BY <1>1 DEF K!cardVars, K!boardVars, K!paneVars, CardInv, CardType, Refused, PaneFits,
     BoardKept, Unlinked, DialogIsWatched, K!DialogIsWatched, K!SelectedSession
<1>2. QED
  BY <1>1, PlaceSteps, DialogSteps, BoardSteps, AnswerSteps DEF K!CardNext

\* A card that is not on a page yet has nothing.
LEMMA InitCard == K!CardInit => CardInv
<1> SUFFICES ASSUME K!CardInit PROVE CardInv
  OBVIOUS
<1>1. /\ session = 1 /\ attached = FALSE /\ blocked = FALSE /\ listed = 0 /\ selected = FALSE
      /\ board = "none" /\ boardOn = FALSE /\ polling = FALSE /\ boardRetry = FALSE
      /\ pane = [state |-> "none", of |-> 0] /\ paneOn = FALSE /\ dialogPolling = FALSE
      /\ paneRetry = FALSE /\ strays = 0 /\ asks = <<>> /\ overlapped = FALSE /\ severed = FALSE
  BY DEF K!CardInit, K!Closed
<1>2. asks \in Seq(Asked)
  BY <1>1
<1>3. CardType /\ Refused
  <2>1. pane \in [state : SocketState, of : Nat]
    BY <1>1 DEF SocketState
  <2>2. board \in SocketState /\ session \in Nat \ {0}
    BY <1>1 DEF SocketState
  <2>3. QED
    BY <1>1, <1>2, <2>1, <2>2 DEF CardType, Refused
<1>4. PaneFits
  BY <1>1 DEF PaneFits, DialogIsWatched, K!DialogIsWatched
<1>5. BoardKept
  BY <1>1 DEF BoardKept, Unlinked, OneBoot, NoList
<1>6. QED
  BY <1>3, <1>4, <1>5 DEF CardInv

\* It says that what is shown is watched.
LEMMA CardShows == CardInv => BoardIsWatched /\ DialogIsWatched
BY BootsAre DEF CardInv, PaneFits, BoardKept, BoardIsWatched, K!BoardIsWatched

\* A board and a dialog of the card are watched at every moment, whatever breaks, is
\* refused, set up again or retried, for any number of sessions, requests and breaks.
THEOREM CardIsWatched == K!CardSpec => [](BoardIsWatched /\ DialogIsWatched)
BY CardShows, InitCard, NextCard, PTL DEF K!CardSpec

-----------------------------------------------------------------------------
(* The dialog that creates a workspace *)

Variant == [of : Agent \cup {None}, n : {1, 2}]
CreateCall ==
    [op : {"presets"}, of : Agent] \cup [op : {"options"}, of : Agent, for : Variant]
        \cup [op : {"repos"}]
        \cup [op : {"create"}, issue : NewIssue \cup {None}, agent : Agent,
              model : Agent \cup {None}, target : Target \cup {None}]
        \cup [op : {"link"}, to : Nat, issue : NewIssue]

CreateType ==
    /\ formOpen \in BOOLEAN /\ linkedTo \in NewIssue \cup {None}
    /\ agent \in Agent /\ variant \in Variant /\ model \in Agent \cup {None}
    /\ target \in Target \cup {None}
    /\ offered \in Agent \cup {None} /\ models \in Agent \cup {None}
    /\ requests \in Seq(CreateCall) /\ stale \in BOOLEAN

\* What was asked for an agent
Awaited(op, of) == \E x \in Held(requests) : x.op = op /\ x.of = of

\* The form offers what its agent has.
Offers == offered = agent /\ models = agent /\ variant.of = agent

\* The presets of the agent are on their way, or its options, or the form has them.
Follows ==
    \/ Awaited("presets", agent)
    \/ Offers /\ (Awaited("options", agent) \/ agent \in Silent \/ model \in {agent, None})

CreateInv == CreateType /\ (formOpen /\ ~stale => Follows)

\* The forms of the requests.
LEMMA CreateCalls ==
    ASSUME NEW x \in CreateCall
    PROVE  /\ x.op \in {"presets", "options", "repos", "create", "link"}
           /\ x.op \in {"presets", "options"} => x.of \in Agent
           /\ x.op = "options" => x.for \in Variant
           /\ x.op = "create" => x.issue \in NewIssue \cup {None}
           /\ x.op = "link" => x.issue \in NewIssue
  BY DEF CreateCall

\* A request the dialog sends.
LEMMA CreateAsks ==
    /\ \A x \in Agent : C!PresetsOf(x) \in CreateCall
    /\ \A x \in Agent, y \in Variant : C!OptionsOf(x, y) \in CreateCall
    /\ [op |-> "repos"] \in CreateCall
    /\ \A x \in NewIssue \cup {None}, y \in Agent, m \in Agent \cup {None},
          w \in Target \cup {None} :
          [op |-> "create", issue |-> x, agent |-> y, model |-> m, target |-> w] \in CreateCall
    /\ \A n \in Nat, x \in NewIssue : [op |-> "link", to |-> n, issue |-> x] \in CreateCall
  BY DEF CreateCall, C!PresetsOf, C!OptionsOf

\* The presets of an agent.
LEMMA PresetIs ==
    \A x \in Agent \cup {None}, n \in {1, 2} : C!Preset(x, n) \in Variant /\ C!Preset(x, n).of = x
  BY DEF C!Preset, Variant

\* The request that was answered is taken out.
LEMMA CreateRest == \A n : C!Rest(n) = Left(requests, n)
  BY DEF C!Rest, C!RemoveAt, Left

\* The user opens the dialog, fills it in, sends it or leaves it.
LEMMA FormSteps ==
    ASSUME CreateInv, C!CreateAssumption,
           \/ \E x \in NewIssue \cup {None} : C!OpenDialog(x)
           \/ \E x \in Agent : C!ChooseAgent(x)
           \/ \E n \in {1, 2} : C!ChooseVariant(n)
           \/ \E m \in Agent \cup {None} : C!ChooseModel(m)
           \/ \E w \in Target : C!ChooseTarget(w)
           \/ C!CancelDialog \/ C!Create
    PROVE  CreateInv'
<1>1. CreateType /\ (formOpen /\ ~stale => Follows)
  BY DEF CreateInv
<1>2. CASE \E x \in NewIssue \cup {None} : C!OpenDialog(x)
  <2>1. PICK x \in NewIssue \cup {None} : C!OpenDialog(x)
    BY <1>2
  <2>2. /\ formOpen' = TRUE /\ linkedTo' = x /\ stale' = FALSE
        /\ requests' = requests \o <<C!PresetsOf(agent), [op |-> "repos"]>>
        /\ UNCHANGED <<agent, variant, model, target, offered, models>>
    BY <2>1 DEF C!OpenDialog, C!Ask, C!choices, C!offers
  <2>3. <<C!PresetsOf(agent), [op |-> "repos"]>> \in Seq(CreateCall)
    <3>1. C!PresetsOf(agent) \in CreateCall /\ [op |-> "repos"] \in CreateCall
      BY <1>1, CreateAsks DEF CreateType
    <3>2. QED
      BY <3>1
  <2>4. requests' \in Seq(CreateCall) /\ C!PresetsOf(agent) \in Held(requests')
    <3> DEFINE r == <<C!PresetsOf(agent), [op |-> "repos"]>>
    <3>1. requests \in Seq(CreateCall) /\ r \in Seq(CreateCall) /\ requests' = requests \o r
      BY <1>1, <2>2, <2>3 DEF CreateType
    <3>2. C!PresetsOf(agent) \in Held(r)
      BY HeldFew
    <3> HIDE DEF r
    <3>3. QED
      BY <3>1, <3>2, HeldBoth
  <2>5. Follows'
    BY <2>2, <2>4 DEF Follows, Awaited, C!PresetsOf
  <2>6. QED
    BY <1>1, <2>2, <2>4, <2>5 DEF CreateInv, CreateType
<1>3. CASE \E x \in Agent : C!ChooseAgent(x)
  <2>1. PICK x \in Agent : C!ChooseAgent(x)
    BY <1>3
  <2>2. /\ agent' = x /\ stale' = FALSE /\ requests' = requests \o <<C!PresetsOf(x)>>
        /\ UNCHANGED <<formOpen, linkedTo, variant, model, target, offered, models>>
    BY <2>1 DEF C!ChooseAgent, C!Ask, C!offers
  <2>3. C!PresetsOf(x) \in CreateCall
    BY CreateAsks
  <2>4. requests' \in Seq(CreateCall) /\ C!PresetsOf(x) \in Held(requests')
    <3>1. requests \in Seq(CreateCall)
      BY <1>1 DEF CreateType
    <3>2. QED
      BY <2>2, <2>3, <3>1, HeldMore
  <2>5. Follows'
    BY <2>2, <2>4 DEF Follows, Awaited, C!PresetsOf
  <2>6. QED
    BY <1>1, <2>2, <2>4, <2>5 DEF CreateInv, CreateType
<1>4. CASE \E n \in {1, 2} : C!ChooseVariant(n)
  <2>1. PICK n \in {1, 2} : C!ChooseVariant(n)
    BY <1>4
  <2> DEFINE v == C!Preset(offered, n)
  <2>2. /\ variant' = v /\ requests' = requests \o <<C!OptionsOf(agent, v)>>
        /\ UNCHANGED <<formOpen, linkedTo, agent, model, target, offered, models, stale>>
    BY <2>1 DEF C!ChooseVariant, C!Ask, C!offers
  <2>3. v \in Variant /\ v.of = offered
    BY <1>1, PresetIs DEF CreateType
  <2> HIDE DEF v
  <2>4. C!OptionsOf(agent, v) \in CreateCall
    BY <1>1, <2>3, CreateAsks DEF CreateType
  <2>5. /\ requests' \in Seq(CreateCall)
        /\ Held(requests') = Held(requests) \cup {C!OptionsOf(agent, v)}
    <3>1. requests \in Seq(CreateCall)
      BY <1>1 DEF CreateType
    <3>2. QED
      BY <2>2, <2>4, <3>1, HeldMore
  <2>6. Awaited("options", agent)'
    BY <2>2, <2>5 DEF Awaited, C!OptionsOf
  <2>7. ASSUME Follows PROVE Follows'
    <3>1. CASE Awaited("presets", agent)
      BY <2>2, <2>5, <3>1 DEF Follows, Awaited
    <3>2. CASE Offers
      BY <2>2, <2>3, <2>6, <3>2 DEF Follows, Offers
    <3>3. QED
      BY <2>7, <3>1, <3>2 DEF Follows
  <2>8. QED
    BY <1>1, <2>2, <2>3, <2>5, <2>7 DEF CreateInv, CreateType
<1>5. CASE \E m \in Agent \cup {None} : C!ChooseModel(m)
  <2>1. PICK m \in Agent \cup {None} : C!ChooseModel(m)
    BY <1>5
  <2>2. /\ m \in {models, None} /\ model' = m
        /\ UNCHANGED <<formOpen, linkedTo, agent, variant, target, offered, models, requests,
                       stale>>
    BY <2>1 DEF C!ChooseModel, C!offers, C!network
  <2>3. Follows => Follows'
    BY <2>2 DEF Follows, Offers, Awaited
  <2>4. QED
    BY <1>1, <2>2, <2>3 DEF CreateInv, CreateType
<1>6. CASE \E w \in Target : C!ChooseTarget(w)
  <2>1. PICK w \in Target : C!ChooseTarget(w)
    BY <1>6
  <2>2. /\ target' = w
        /\ UNCHANGED <<formOpen, linkedTo, agent, variant, model, offered, models, requests, stale>>
    BY <2>1 DEF C!ChooseTarget, C!offers, C!network
  <2>3. Follows => Follows'
    BY <2>2 DEF Follows, Offers, Awaited
  <2>4. QED
    BY <1>1, <2>2, <2>3 DEF CreateInv, CreateType
<1>7. CASE C!CancelDialog
  BY <1>1, <1>7, PresetIs DEF C!CancelDialog, C!Cleared, C!Plain, C!offers, C!network,
     C!CreateAssumption, CreateInv, CreateType
<1>8. CASE C!Create
  <2> DEFINE x == [op |-> "create", issue |-> linkedTo, agent |-> agent, model |-> model,
                   target |-> target]
  <2>1. /\ requests' = requests \o <<x>>
        /\ UNCHANGED <<formOpen, linkedTo, agent, variant, model, target, offered, models, stale>>
    BY <1>8 DEF C!Create, C!Ask, C!choices, C!offers
  <2>2. x \in CreateCall
    BY <1>1, CreateAsks DEF CreateType
  <2> HIDE DEF x
  <2>3. requests' \in Seq(CreateCall) /\ Held(requests) \subseteq Held(requests')
    <3>1. requests \in Seq(CreateCall)
      BY <1>1 DEF CreateType
    <3>2. QED
      BY <2>1, <2>2, <3>1, HeldMore
  <2>4. Follows => Follows'
    BY <2>1, <2>3 DEF Follows, Offers, Awaited
  <2>5. QED
    BY <1>1, <2>1, <2>3, <2>4 DEF CreateInv, CreateType
<1>9. QED
  BY <1>2, <1>3, <1>4, <1>5, <1>6, <1>7, <1>8

\* What a request that is neither of the two leaves.
LEMMA OtherAnswered ==
    ASSUME CreateInv, NEW n \in DOMAIN requests,
           requests[n].op \notin {"presets", "options"},
           Held(requests) \ {requests[n]} \subseteq Held(requests'),
           UNCHANGED <<agent, variant, model, offered, models>>
    PROVE  Follows => Follows'
<1>1. \A op \in {"presets", "options"} : \A of : Awaited(op, of) => Awaited(op, of)'
  BY DEF Awaited
<1>2. QED
  BY <1>1 DEF Follows, Offers

\* A form that was cleared is closed.
LEMMA ClearedIs ==
    ASSUME CreateInv, C!CreateAssumption, C!Cleared, requests' \in Seq(CreateCall),
           stale' \in BOOLEAN
    PROVE  CreateInv'
<1>1. /\ formOpen' = FALSE /\ linkedTo' = None /\ agent' = Usual /\ variant' = C!Plain
      /\ model' = None /\ target' = None /\ UNCHANGED <<offered, models>>
  BY DEF C!Cleared, C!offers
<1>2. C!Plain \in Variant
  BY PresetIs DEF C!Plain
<1>3. QED
  BY <1>1, <1>2 DEF CreateInv, CreateType, C!CreateAssumption

\* An answer comes, or none.
LEMMA FormAnswers ==
    ASSUME CreateInv, C!CreateAssumption, NEW n \in 1 .. MaxCreate,
           \/ C!PresetsArrive(n) \/ C!OptionsArrive(n) \/ C!ReposArrive(n)
           \/ C!CreateAnswered(n) \/ C!Linked(n) \/ C!CallFails(n)
    PROVE  CreateInv'
<1>1. CreateType /\ (formOpen /\ ~stale => Follows)
  BY DEF CreateInv
<1>2. n \in DOMAIN requests
  BY DEF C!PresetsArrive, C!OptionsArrive, C!ReposArrive, C!CreateAnswered, C!Linked,
     C!CallFails, C!IsOp
<1> DEFINE x == requests[n]
           rest == Left(requests, n)
<1>3. /\ x \in CreateCall /\ rest \in Seq(CreateCall)
      /\ Held(rest) \subseteq Held(requests) /\ Held(requests) \ {x} \subseteq Held(rest)
  BY <1>1, <1>2, HeldLess DEF CreateType
<1>4. C!Rest(n) = rest
  BY CreateRest
<1> HIDE DEF rest
<1>5. /\ x.op \in {"presets", "options"} => x.of \in Agent
      /\ x.op = "options" => x.for \in Variant
      /\ x.op = "link" => x.issue \in NewIssue
  BY <1>3, CreateCalls
<1>6. CASE C!PresetsArrive(n)
  <2> DEFINE y == C!OptionsOf(x.of, C!Preset(x.of, 1))
  <2>1. /\ x.op = "presets"
        /\ offered' = x.of /\ models' = x.of /\ variant' = C!Preset(x.of, 1)
        /\ requests' = rest \o <<y>>
        /\ stale' = (stale \/ x.of # agent)
        /\ UNCHANGED <<formOpen, linkedTo, agent, model, target>>
    BY <1>4, <1>6 DEF C!PresetsArrive, C!Ask, C!IsOp
  <2>2. C!Preset(x.of, 1) \in Variant /\ C!Preset(x.of, 1).of = x.of /\ x.of \in Agent
    BY <1>5, <2>1, PresetIs
  <2>3. y \in CreateCall /\ y.op = "options" /\ y.of = x.of
    <3>1. y \in CreateCall
      BY <2>2, CreateAsks
    <3>2. QED
      BY <3>1 DEF C!OptionsOf
  <2> HIDE DEF y
  <2>4. requests' \in Seq(CreateCall) /\ y \in Held(requests')
    BY <1>3, <2>1, <2>3, HeldMore
  <2>5. ASSUME ~stale' PROVE Follows'
    <3>1. x.of = agent
      BY <2>1, <2>5
    <3>2. QED
      BY <2>1, <2>2, <2>3, <2>4, <3>1 DEF Follows, Offers, Awaited
  <2>6. stale' \in BOOLEAN
    BY <1>1, <2>1 DEF CreateType
  <2>7. QED
    BY <1>1, <2>1, <2>2, <2>4, <2>5, <2>6 DEF CreateInv, CreateType
<1>7. CASE C!OptionsArrive(n)
  <2>1. /\ x.op = "options" /\ model' = C!ModelTold(x.of)
        /\ variant' = (IF x.for.of = x.of THEN x.for ELSE C!Preset(x.of, 1))
        /\ stale' = (stale \/ x.of # agent) /\ requests' = rest
        /\ UNCHANGED <<formOpen, linkedTo, agent, target, offered, models>>
    BY <1>4, <1>7, Zenon DEF C!OptionsArrive, C!IsOp, C!offers
  <2>2. variant' \in Variant /\ variant'.of = x.of /\ x.of \in Agent
    BY <1>5, <2>1, PresetIs
  <2>3. model' \in Agent \cup {None} /\ (x.of \in Silent \/ model' = x.of)
    BY <1>1, <1>5, <2>1 DEF C!ModelTold, CreateType
  <2>4. ASSUME formOpen', ~stale' PROVE Follows'
    <3>1. x.of = agent /\ ~stale /\ formOpen
      BY <2>1, <2>4
    <3>2. CASE Awaited("presets", agent)
      <4>1. Awaited("presets", agent)'
        BY <1>3, <2>1, <3>2 DEF Awaited
      <4>2. QED
        BY <2>1, <4>1 DEF Follows
    <3>3. CASE Offers
      BY <2>1, <2>2, <2>3, <3>1, <3>3 DEF Follows, Offers
    <3>4. QED
      BY <1>1, <3>1, <3>2, <3>3 DEF Follows
  <2>5. stale' \in BOOLEAN
    BY <1>1, <2>1 DEF CreateType
  <2>6. QED
    BY <1>1, <1>3, <2>1, <2>2, <2>3, <2>4, <2>5 DEF CreateInv, CreateType
<1>8. CASE C!ReposArrive(n)
  <2>1. /\ x.op = "repos" /\ target' = Preferred /\ requests' = rest
        /\ UNCHANGED <<formOpen, linkedTo, agent, variant, model, offered, models, stale>>
    BY <1>4, <1>8 DEF C!ReposArrive, C!IsOp, C!offers
  <2>2. Follows => Follows'
    BY <1>2, <1>3, <2>1, OtherAnswered
  <2>3. QED
    BY <1>1, <1>3, <2>1, <2>2 DEF CreateInv, CreateType, C!CreateAssumption
<1>9. CASE C!CreateAnswered(n)
  <2>1. x.op = "create" /\ stale' = stale
    BY <1>9 DEF C!CreateAnswered, C!IsOp
  <2>2. CASE linkedTo = None
    <3>1. C!Cleared /\ requests' = rest
      BY <1>4, <1>9, <2>2 DEF C!CreateAnswered
    <3>2. QED
      BY <1>1, <1>3, <2>1, <3>1, ClearedIs DEF CreateType
  <2>3. CASE linkedTo # None
    <3> DEFINE y == [op |-> "link", to |-> Len(made) + 1, issue |-> linkedTo]
    <3>1. /\ requests' = rest \o <<y>>
          /\ UNCHANGED <<formOpen, linkedTo, agent, variant, model, target, offered, models>>
      BY <1>4, <1>9, <2>3 DEF C!CreateAnswered, C!Ask, C!offers
    <3>2. y \in CreateCall
      BY <1>1, <2>3, CreateAsks DEF CreateType
    <3> HIDE DEF y
    <3>3. requests' \in Seq(CreateCall) /\ Held(rest) \subseteq Held(requests')
      BY <1>3, <3>1, <3>2, HeldMore
    <3>4. Follows => Follows'
      BY <1>2, <1>3, <2>1, <3>1, <3>3, OtherAnswered
    <3>5. QED
      BY <1>1, <2>1, <3>1, <3>3, <3>4 DEF CreateInv, CreateType
  <2>4. QED
    BY <2>2, <2>3
<1>10. CASE C!Linked(n)
  <2>1. C!Cleared /\ requests' = rest /\ stale' = stale
    BY <1>4, <1>10 DEF C!Linked
  <2>2. QED
    BY <1>1, <1>3, <2>1, ClearedIs DEF CreateType
<1>11. CASE C!CallFails(n)
  <2>1. /\ requests' = rest /\ stale' = (stale \/ x.op \in {"presets", "options"})
    BY <1>4, <1>11 DEF C!CallFails
  <2>2. stale' \in BOOLEAN
    BY <1>1, <2>1 DEF CreateType
  <2>3. CASE x.op = "link"
    <3>1. C!Cleared
      BY <1>11, <2>3 DEF C!CallFails
    <3>2. QED
      BY <1>3, <2>1, <2>2, <3>1, ClearedIs
  <2>4. CASE x.op # "link"
    <3>1. /\ offered' = (IF x.op = "presets" THEN None ELSE offered)
          /\ UNCHANGED <<formOpen, linkedTo, agent, variant, model, target, models>>
      BY <1>11, <2>4 DEF C!CallFails
    <3>2. ASSUME ~stale' PROVE ~stale /\ (Follows => Follows')
      <4>1. ~stale /\ x.op \notin {"presets", "options"}
        BY <2>1, <3>2
      <4>2. UNCHANGED <<agent, variant, model, offered, models>>
        BY <3>1, <4>1
      <4>3. QED
        BY <1>2, <1>3, <2>1, <4>1, <4>2, OtherAnswered
    <3>3. CreateType'
      BY <1>1, <1>3, <2>1, <2>2, <3>1 DEF CreateType
    <3>4. QED
      BY <1>1, <3>1, <3>2, <3>3 DEF CreateInv
  <2>5. QED
    BY <2>3, <2>4
<1>12. QED
  BY <1>6, <1>7, <1>8, <1>9, <1>10, <1>11

\* Every step of the dialog keeps it.
LEMMA NextCreate ==
    ASSUME C!CreateAssumption
    PROVE  CreateInv /\ [C!CreateNext]_(C!createVars) => CreateInv'
<1> SUFFICES ASSUME CreateInv, [C!CreateNext]_(C!createVars) PROVE CreateInv'
  OBVIOUS
<1>1. CASE UNCHANGED C!createVars
  BY <1>1 DEF C!createVars, C!choices, C!offers, C!network, CreateInv, CreateType, Follows,
     Offers, Awaited
<1>2. CASE C!CreateNext
  BY <1>2, FormSteps, FormAnswers DEF C!CreateNext
<1>3. QED
  BY <1>1, <1>2

\* The dialog is closed at first.
LEMMA InitCreate == C!CreateAssumption /\ C!CreateInit => CreateInv
<1> SUFFICES ASSUME C!CreateAssumption, C!CreateInit PROVE CreateInv
  OBVIOUS
<1>1. /\ formOpen = FALSE /\ linkedTo = None /\ agent = Usual /\ variant = C!Plain /\ model = None
      /\ target = None /\ offered = None /\ models = None /\ requests = <<>> /\ stale = FALSE
  BY DEF C!CreateInit
<1>2. C!Plain \in Variant
  BY PresetIs DEF C!Plain
<1>3. requests \in Seq(CreateCall)
  BY <1>1
<1>4. QED
  BY <1>1, <1>2, <1>3 DEF CreateInv, CreateType, C!CreateAssumption

\* It says what the form offers once the answers are in.
LEMMA CreateShows == CreateInv => FormFollowsAgent
<1> SUFFICES ASSUME CreateInv, formOpen, ~stale,
                    \A n \in DOMAIN requests : requests[n].op \notin {"presets", "options"}
             PROVE  /\ offered = agent /\ models = agent /\ variant.of = agent
                    /\ agent \in Silent \/ model \in {agent, None}
  BY DEF FormFollowsAgent, C!FormFollowsAgent
<1>1. \A op \in {"presets", "options"} : \A of : ~Awaited(op, of)
  BY DEF Awaited, Held
<1>2. QED
  BY <1>1 DEF CreateInv, Follows, Offers

\* The dialog that creates a workspace offers the presets and models of the agent it
\* shows, in whatever order the answers come, unless one failed or was for another.
THEOREM FormIsOfItsAgent == C!CreateSpec => []FormFollowsAgent
<1>1. C!CreateInit => CreateInv
  BY InitCreate, BoardsAssumption
<1>2. CreateInv /\ [C!CreateNext]_(C!createVars) => CreateInv'
  BY NextCreate, BoardsAssumption
<1>3. QED
  BY <1>1, <1>2, CreateShows, PTL DEF C!CreateSpec

-----------------------------------------------------------------------------
(* The diff panel and its streams *)

Socket == {"opening", "open", "closed"}

DiffInv ==
    /\ sockets \in Seq(Socket)
    /\ panel \in O!Panel \cup {None}
    /\ panel # None => panel.id \in DOMAIN sockets
    /\ \A n \in DOMAIN sockets : sockets[n] # "closed" => panel # None /\ panel.id = n
    /\ panel # None /\ sockets[panel.id] = "closed" => ~panel.loading

\* A socket goes on to another state.
LEMMA SocketMoves ==
    ASSUME NEW s \in Seq(Socket), NEW n \in DOMAIN s, NEW x \in Socket
    PROVE  LET r == [s EXCEPT ![n] = x]
           IN  /\ r \in Seq(Socket) /\ DOMAIN r = DOMAIN s /\ r[n] = x
               /\ \A m \in DOMAIN s : m # n => r[m] = s[m]
<1> DEFINE r == [s EXCEPT ![n] = x]
<1>1. DOMAIN r = DOMAIN s /\ r[n] = x /\ \A m \in DOMAIN s : m # n => r[m] = s[m]
  OBVIOUS
<1>2. r \in Seq(Socket)
  <2>1. Len(s) \in Nat /\ DOMAIN s = 1 .. Len(s) /\ s \in [1 .. Len(s) -> Socket]
    OBVIOUS
  <2>2. r \in [1 .. Len(s) -> Socket]
    BY <2>1
  <2>3. QED
    BY <2>1, <2>2, SeqDef
<1>3. QED
  BY <1>1, <1>2

\* The page renders its panel, or none.
LEMMA RenderKeeps ==
    ASSUME DiffInv, O!OverlaysAssumption, NEW w, NEW workspace, O!RenderPanel(w, workspace)
    PROVE  DiffInv'
<1>1. CASE w \notin workspace
  <2>1. panel' = None
    BY <1>1 DEF O!RenderPanel
  <2>2. CASE panel = None
    <3>1. sockets' = sockets
      BY <1>1, <2>2 DEF O!RenderPanel, O!Disconnected
    <3>2. QED
      BY <2>1, <2>2, <3>1 DEF DiffInv
  <2>3. CASE panel # None
    <3>1. sockets' = [sockets EXCEPT ![panel.id] = "closed"]
      BY <1>1, <2>3 DEF O!RenderPanel, O!Disconnected
    <3>2. sockets \in Seq(Socket) /\ panel.id \in DOMAIN sockets /\ "closed" \in Socket
      BY <2>3 DEF DiffInv, Socket
    <3>3. /\ sockets' \in Seq(Socket) /\ DOMAIN sockets' = DOMAIN sockets
          /\ sockets'[panel.id] = "closed"
          /\ \A m \in DOMAIN sockets : m # panel.id => sockets'[m] = sockets[m]
      BY <3>1, <3>2, SocketMoves
    <3>4. \A n \in DOMAIN sockets' : sockets'[n] = "closed"
      BY <3>3 DEF DiffInv
    <3>5. QED
      BY <2>1, <3>3, <3>4 DEF DiffInv
  <2>4. QED
    BY <2>2, <2>3
<1>2. CASE w \in workspace /\ panel # None
  BY <1>2 DEF O!RenderPanel, DiffInv
<1>3. CASE w \in workspace /\ panel = None
  <2> DEFINE id == Len(sockets) + 1
  <2>1. /\ sockets' = Append(sockets, "opening")
        /\ panel' = [id |-> id, loading |-> TRUE, failed |-> FALSE, files |-> FALSE]
    BY <1>3 DEF O!RenderPanel, O!Connect
  <2>2. /\ sockets \in Seq(Socket) /\ "opening" \in Socket
        /\ \A n \in DOMAIN sockets : sockets[n] = "closed"
    BY <1>3 DEF DiffInv, Socket
  <2>3. /\ sockets' \in Seq(Socket) /\ DOMAIN sockets' = 1 .. id /\ id \in Nat \ {0}
        /\ sockets'[id] = "opening"
        /\ \A n \in 1 .. Len(sockets) : sockets'[n] = sockets[n]
        /\ DOMAIN sockets = 1 .. Len(sockets) /\ Len(sockets) \in Nat
    BY <2>1, <2>2
  <2>4. panel' \in O!Panel
    BY <2>1, <2>3 DEF O!Panel
  <2>5. panel' # None
    BY <2>4 DEF O!OverlaysAssumption
  <2>6. panel'.id = id /\ id \in DOMAIN sockets'
    BY <2>1, <2>3
  <2>7. \A n \in DOMAIN sockets' : sockets'[n] # "closed" => n = id
    <3> SUFFICES ASSUME NEW n \in DOMAIN sockets', n # id PROVE sockets'[n] = "closed"
      OBVIOUS
    <3>1. n \in 1 .. Len(sockets)
      BY <2>3
    <3>2. QED
      BY <2>2, <2>3, <3>1
  <2>8. QED
    BY <2>3, <2>4, <2>5, <2>6, <2>7 DEF DiffInv
<1>4. QED
  BY <1>1, <1>2, <1>3

\* What the stream tells the panel.
LEMMA StreamKeeps ==
    ASSUME DiffInv, O!OverlaysAssumption,
           \/ O!FileArrives \/ O!Ready
           \/ \E broken \in BOOLEAN : O!StreamEnds(broken)
           \/ \E n \in DOMAIN sockets : O!SocketOpens(n)
    PROVE  DiffInv'
<1>1. CASE O!FileArrives \/ O!Ready
  <2>1. /\ panel # None /\ sockets' = sockets /\ sockets[panel.id] = "open"
        /\ \/ panel' = [panel EXCEPT !.loading = FALSE, !.files = TRUE]
           \/ panel' = [panel EXCEPT !.loading = FALSE]
    BY <1>1 DEF O!FileArrives, O!Ready, O!Streams
  <2>2. panel \in O!Panel
    BY <2>1 DEF DiffInv
  <2>3. panel' \in O!Panel /\ panel'.id = panel.id /\ panel'.loading = FALSE
    BY <2>1, <2>2 DEF O!Panel
  <2>4. panel' # None
    BY <2>3 DEF O!OverlaysAssumption
  <2>5. QED
    BY <2>1, <2>3, <2>4 DEF DiffInv
<1>2. CASE \E broken \in BOOLEAN : O!StreamEnds(broken)
  <2>1. PICK broken \in BOOLEAN : O!StreamEnds(broken)
    BY <1>2
  <2>2. /\ panel # None
        /\ panel' = [panel EXCEPT !.loading = FALSE, !.failed = panel.failed \/ broken]
        /\ sockets' = [sockets EXCEPT ![panel.id] = "closed"]
    BY <2>1 DEF O!StreamEnds, O!Ended
  <2>3. panel \in O!Panel /\ panel.id \in DOMAIN sockets /\ sockets \in Seq(Socket)
    BY <2>2 DEF DiffInv
  <2>4. panel' \in O!Panel /\ panel'.id = panel.id /\ panel'.loading = FALSE
    <3>1. panel.failed \/ broken \in BOOLEAN
      BY <2>3 DEF O!Panel
    <3>2. QED
      BY <2>2, <2>3, <3>1 DEF O!Panel
  <2>5. panel' # None
    BY <2>4 DEF O!OverlaysAssumption
  <2>6. "closed" \in Socket
    BY DEF Socket
  <2>7. /\ sockets' \in Seq(Socket) /\ DOMAIN sockets' = DOMAIN sockets
        /\ sockets'[panel.id] = "closed"
        /\ \A m \in DOMAIN sockets : m # panel.id => sockets'[m] = sockets[m]
    BY <2>2, <2>3, <2>6, SocketMoves
  <2>8. QED
    BY <2>3, <2>4, <2>5, <2>7 DEF DiffInv
<1>3. CASE \E n \in DOMAIN sockets : O!SocketOpens(n)
  <2>1. PICK n \in DOMAIN sockets : O!SocketOpens(n)
    BY <1>3
  <2>2. /\ sockets[n] = "opening" /\ sockets' = [sockets EXCEPT ![n] = "open"]
        /\ panel' = panel
    BY <2>1 DEF O!SocketOpens
  <2>3. sockets \in Seq(Socket) /\ "open" \in Socket /\ panel # None /\ panel.id = n
    BY <2>2 DEF DiffInv, Socket
  <2>4. /\ sockets' \in Seq(Socket) /\ DOMAIN sockets' = DOMAIN sockets
        /\ sockets'[n] = "open"
        /\ \A m \in DOMAIN sockets : m # n => sockets'[m] = sockets[m]
    BY <2>2, <2>3, SocketMoves
  <2>5. QED
    BY <2>2, <2>3, <2>4 DEF DiffInv
<1>4. QED
  BY <1>1, <1>2, <1>3

-----------------------------------------------------------------------------
(* The form for a pull request *)

Fill == {"repos", "branches", "message", "done"}

\* A form is loading until its last request; what is typed is typed after it.
FillInv ==
    /\ fills \in Seq(Fill)
    /\ request \in O!Form \cup {None}
    /\ request # None =>
         /\ request.id \in DOMAIN fills
         /\ request.loading <=> fills[request.id] # "done"
         /\ request.typed # None => ~request.loading /\ request.title = request.typed

\* One request of a dialog follows another.
LEMMA FillMoves ==
    ASSUME NEW s \in Seq(Fill), NEW n \in DOMAIN s, NEW x \in Fill
    PROVE  LET r == [s EXCEPT ![n] = x]
           IN  /\ r \in Seq(Fill) /\ DOMAIN r = DOMAIN s /\ r[n] = x
<1> DEFINE r == [s EXCEPT ![n] = x]
<1>1. DOMAIN r = DOMAIN s /\ r[n] = x
  OBVIOUS
<1>2. r \in Seq(Fill)
  <2>1. Len(s) \in Nat /\ DOMAIN s = 1 .. Len(s) /\ s \in [1 .. Len(s) -> Fill]
    OBVIOUS
  <2>2. r \in [1 .. Len(s) -> Fill]
    BY <2>1
  <2>3. QED
    BY <2>1, <2>2, SeqDef
<1>3. QED
  BY <1>1, <1>2

\* A form whose request goes on.
LEMMA FormLoads ==
    ASSUME FillInv, O!OverlaysAssumption, NEW n \in DOMAIN fills, NEW x \in Fill,
           O!Mine(n), fills[n] # "done", fills' = [fills EXCEPT ![n] = x],
           request' \in O!Form, request'.id = request.id, request'.typed = request.typed,
           request'.loading <=> x # "done"
    PROVE  FillInv'
<1>1. request # None /\ request.id = n
  BY DEF O!Mine
<1>2. request.loading /\ request.typed = None
  BY <1>1 DEF FillInv
<1>3. fills' \in Seq(Fill) /\ DOMAIN fills' = DOMAIN fills /\ fills'[n] = x
  BY FillMoves DEF FillInv
<1>4. request' # None
  BY DEF O!OverlaysAssumption
<1>5. QED
  BY <1>1, <1>2, <1>3, <1>4 DEF FillInv

\* The dialog is opened and closed, and its requests are answered or fail.
LEMMA LoadSteps ==
    ASSUME FillInv, O!OverlaysAssumption,
           \/ \E w \in Workspace : O!OpenForm(w)
           \/ O!CloseForm
           \/ \E n \in DOMAIN fills :
                 O!ReposArrive(n) \/ O!BranchesArrive(n) \/ O!MessageArrives(n) \/ O!LoadFails(n)
    PROVE  FillInv'
<1>1. CASE \E w \in Workspace : O!OpenForm(w)
  <2>1. PICK w \in Workspace : O!OpenForm(w)
    BY <1>1
  <2> DEFINE id == Len(fills) + 1
  <2>2. /\ fills' = Append(fills, "repos")
        /\ request' = [id |-> id, ws |-> w, title |-> None, typed |-> None,
                       base |-> None, repo |-> FALSE, listed |-> FALSE,
                       loading |-> TRUE, creating |-> FALSE, error |-> FALSE]
    BY <2>1 DEF O!OpenForm
  <2>3. fills \in Seq(Fill) /\ "repos" \in Fill
    BY DEF FillInv, Fill
  <2>4. /\ fills' \in Seq(Fill) /\ id \in DOMAIN fills' /\ id \in Nat
        /\ fills'[id] = "repos"
    BY <2>2, <2>3
  <2>5. request' \in O!Form
    BY <2>2, <2>4 DEF O!Form, O!FormTitle
  <2>6. request'.id = id /\ request'.loading = TRUE /\ request'.typed = None
    BY <2>2
  <2>7. request' # None
    BY <2>5 DEF O!OverlaysAssumption
  <2>8. QED
    BY <2>4, <2>5, <2>6, <2>7 DEF FillInv
<1>2. CASE O!CloseForm
  BY <1>2 DEF O!CloseForm, FillInv
<1>3. CASE \E n \in DOMAIN fills :
              O!ReposArrive(n) \/ O!BranchesArrive(n) \/ O!MessageArrives(n) \/ O!LoadFails(n)
  <2>1. PICK n \in DOMAIN fills :
                O!ReposArrive(n) \/ O!BranchesArrive(n) \/ O!MessageArrives(n) \/ O!LoadFails(n)
    BY <1>3
  <2>2. O!Mine(n) /\ fills[n] # "done"
    BY <2>1 DEF O!ReposArrive, O!BranchesArrive, O!MessageArrives, O!LoadFails
  <2>3. request \in O!Form /\ request.loading = TRUE
    BY <2>2 DEF FillInv, O!Mine, O!Form
  <2>4. CASE O!ReposArrive(n)
    <3> DEFINE x == IF request.ws \in {a} THEN "branches" ELSE "message"
               known == request.ws \in {a}
    <3>1. /\ fills' = [fills EXCEPT ![n] = x] /\ x \in Fill /\ x # "done"
          /\ request' = [request EXCEPT !.repo = known] /\ known \in BOOLEAN
      BY <2>4 DEF O!ReposArrive, O!Step, Fill
    <3> HIDE DEF x, known
    <3>2. /\ request' \in O!Form /\ request'.id = request.id /\ request'.typed = request.typed
          /\ request'.loading = request.loading
      BY <2>3, <3>1 DEF O!Form
    <3>3. QED
      BY <2>2, <2>3, <3>1, <3>2, FormLoads
  <2>5. CASE O!BranchesArrive(n)
    <3>1. /\ fills' = [fills EXCEPT ![n] = "message"] /\ "message" \in Fill
          /\ request' = [request EXCEPT !.listed = TRUE]
      BY <2>5 DEF O!BranchesArrive, O!Step, Fill
    <3>2. /\ request' \in O!Form /\ request'.id = request.id /\ request'.typed = request.typed
          /\ request'.loading = request.loading
      BY <2>3, <3>1 DEF O!Form
    <3>3. QED
      BY <2>2, <2>3, <3>1, <3>2, FormLoads
  <2>6. CASE O!MessageArrives(n)
    <3> DEFINE branch == O!BaseOf(request)
               said == [w \in Workspace |-> IF w = a THEN msg ELSE None]
               first == IF said[request.ws] = None THEN request.title ELSE said[request.ws]
    <3>1. /\ fills' = [fills EXCEPT ![n] = "done"] /\ "done" \in Fill
          /\ request' = [request EXCEPT !.loading = FALSE, !.base = branch, !.title = first]
      BY <2>6 DEF O!MessageArrives, O!Step, Fill
    <3>2. request.ws \in Workspace /\ request.title \in O!FormTitle
      BY <2>3 DEF O!Form
    <3>3. branch \in {feature, main} \cup {None}
      BY <3>2 DEF O!BaseOf, O!OverlaysAssumption
    <3>4. first \in O!FormTitle
      BY <3>2 DEF O!FormTitle
    <3> HIDE DEF branch, first
    <3>5. /\ request' \in O!Form /\ request'.id = request.id /\ request'.typed = request.typed
          /\ request'.loading = FALSE
      BY <2>3, <3>1, <3>3, <3>4 DEF O!Form
    <3>6. QED
      BY <2>2, <3>1, <3>5, FormLoads
  <2>7. CASE O!LoadFails(n)
    <3>1. /\ fills' = [fills EXCEPT ![n] = "done"] /\ "done" \in Fill
          /\ request' = [request EXCEPT !.loading = FALSE, !.error = TRUE]
      BY <2>7 DEF O!LoadFails, O!Step, Fill
    <3>2. /\ request' \in O!Form /\ request'.id = request.id /\ request'.typed = request.typed
          /\ request'.loading = FALSE
      BY <2>3, <3>1 DEF O!Form
    <3>3. QED
      BY <2>2, <3>1, <3>2, FormLoads
  <2>8. QED
    BY <2>1, <2>4, <2>5, <2>6, <2>7
<1>4. QED
  BY <1>1, <1>2, <1>3

\* The fields are used, and the request is sent and answered.
LEMMA EditSteps ==
    ASSUME FillInv, O!OverlaysAssumption,
           \/ O!TypeTitle \/ O!Submit
           \/ \E x \in {feature, main} : O!ChooseBranch(x)
           \/ \E x \in requestsOut : O!Created(x) \/ O!CreateFails(x)
    PROVE  FillInv'
<1>1. fills' = fills
  BY DEF O!TypeTitle, O!Submit, O!ChooseBranch, O!Created, O!CreateFails
<1>2. CASE request' \in {None, request}
  BY <1>1, <1>2 DEF FillInv
<1>3. ASSUME request # None, request' \in O!Form, request'.id = request.id,
             request'.loading = request.loading, request'.typed = request.typed,
             request'.title = request.title
      PROVE  FillInv'
  <2>1. request' # None
    BY <1>3 DEF O!OverlaysAssumption
  <2>2. QED
    BY <1>1, <1>3, <2>1 DEF FillInv
<1>4. CASE O!TypeTitle
  <2>1. /\ request # None /\ ~request.loading
        /\ request' = [request EXCEPT !.title = t, !.typed = t]
    BY <1>4 DEF O!TypeTitle, O!Editable
  <2>2. request \in O!Form /\ t \in O!FormTitle
    BY <2>1 DEF FillInv, O!FormTitle
  <2>3. /\ request' \in O!Form /\ request'.id = request.id
        /\ request'.loading = request.loading /\ request'.typed = t /\ request'.title = t
    BY <2>1, <2>2 DEF O!Form
  <2>4. request' # None
    BY <2>3 DEF O!OverlaysAssumption
  <2>5. QED
    BY <1>1, <2>1, <2>3, <2>4 DEF FillInv
<1>5. CASE O!Submit
  <2>1. request # None /\ request' = [request EXCEPT !.creating = TRUE, !.error = FALSE]
    BY <1>5 DEF O!Submit, O!Editable
  <2>2. request \in O!Form
    BY <2>1 DEF FillInv
  <2>3. /\ request' \in O!Form /\ request'.id = request.id
        /\ request'.loading = request.loading /\ request'.typed = request.typed
        /\ request'.title = request.title
    BY <2>1, <2>2 DEF O!Form
  <2>4. QED
    BY <1>3, <2>1, <2>3
<1>6. CASE \E x \in {feature, main} : O!ChooseBranch(x)
  <2>1. PICK x \in {feature, main} : O!ChooseBranch(x)
    BY <1>6
  <2>2. request # None /\ request' = [request EXCEPT !.base = x]
    BY <2>1 DEF O!ChooseBranch, O!Editable
  <2>3. request \in O!Form
    BY <2>2 DEF FillInv
  <2>4. /\ request' \in O!Form /\ request'.id = request.id
        /\ request'.loading = request.loading /\ request'.typed = request.typed
        /\ request'.title = request.title
    BY <2>2, <2>3 DEF O!Form
  <2>5. QED
    BY <1>3, <2>2, <2>4
<1>7. CASE \E x \in requestsOut : O!Created(x) \/ O!CreateFails(x)
  <2>1. PICK x \in requestsOut : O!Created(x) \/ O!CreateFails(x)
    BY <1>7
  <2>2. CASE O!Created(x)
    BY <1>2, <2>2 DEF O!Created, O!FormAfter
  <2>3. CASE O!CreateFails(x) /\ ~O!Mine(x.id)
    BY <1>2, <2>3 DEF O!CreateFails
  <2>4. CASE O!CreateFails(x) /\ O!Mine(x.id)
    <3>1. request # None /\ request' = [request EXCEPT !.creating = FALSE, !.error = TRUE]
      BY <2>4 DEF O!CreateFails, O!Mine
    <3>2. request \in O!Form
      BY <3>1 DEF FillInv
    <3>3. /\ request' \in O!Form /\ request'.id = request.id
          /\ request'.loading = request.loading /\ request'.typed = request.typed
          /\ request'.title = request.title
      BY <3>1, <3>2 DEF O!Form
    <3>4. QED
      BY <1>3, <3>1, <3>3
  <2>5. QED
    BY <2>1, <2>2, <2>3, <2>4
<1>8. QED
  BY <1>4, <1>5, <1>6, <1>7

\* Every step of the overlays keeps both.
LEMMA NextOverlays ==
    ASSUME O!OverlaysAssumption
    PROVE  DiffInv /\ FillInv /\ [O!OverlaysNext]_(O!overlayVars) => DiffInv' /\ FillInv'
<1> SUFFICES ASSUME DiffInv, FillInv, [O!OverlaysNext]_(O!overlayVars)
             PROVE  DiffInv' /\ FillInv'
  OBVIOUS
<1>1. CASE UNCHANGED O!overlayVars
  BY <1>1 DEF O!overlayVars, O!diffVars, O!formVars, DiffInv, FillInv
<1>2. ASSUME UNCHANGED O!formVars PROVE FillInv'
  BY <1>2 DEF O!formVars, FillInv
<1>3. ASSUME UNCHANGED O!diffVars PROVE DiffInv'
  BY <1>3 DEF O!diffVars, DiffInv
<1>4. CASE \/ \E w \in Workspace : O!OpenDiff(w)
           \/ O!CloseDiff
           \/ \E x \in SUBSET Workspace : O!ListChanges(x)
  <2>1. UNCHANGED O!formVars
    BY <1>4 DEF O!OpenDiff, O!CloseDiff, O!ListChanges
  <2>2. \E x, y : O!RenderPanel(x, y)
    BY <1>4 DEF O!OpenDiff, O!CloseDiff, O!ListChanges
  <2>3. QED
    BY <1>2, <2>1, <2>2, RenderKeeps
<1>5. CASE \/ O!FileArrives \/ O!Ready
           \/ \E broken \in BOOLEAN : O!StreamEnds(broken)
           \/ \E n \in DOMAIN sockets : O!SocketOpens(n)
  <2>1. UNCHANGED O!formVars
    BY <1>5 DEF O!FileArrives, O!Ready, O!StreamEnds, O!SocketOpens
  <2>2. QED
    BY <1>2, <1>5, <2>1, StreamKeeps
<1>6. CASE \/ \E w \in Workspace : O!OpenForm(w)
           \/ O!CloseForm
           \/ \E n \in DOMAIN fills :
                 O!ReposArrive(n) \/ O!BranchesArrive(n) \/ O!MessageArrives(n) \/ O!LoadFails(n)
  <2>1. UNCHANGED O!diffVars
    BY <1>6 DEF O!OpenForm, O!CloseForm, O!ReposArrive, O!BranchesArrive, O!MessageArrives,
       O!LoadFails
  <2>2. QED
    BY <1>3, <1>6, <2>1, LoadSteps
<1>7. CASE \/ O!TypeTitle \/ O!Submit
           \/ \E x \in {feature, main} : O!ChooseBranch(x)
           \/ \E x \in requestsOut : O!Created(x) \/ O!CreateFails(x)
  <2>1. UNCHANGED O!diffVars
    BY <1>7 DEF O!TypeTitle, O!Submit, O!ChooseBranch, O!Created, O!CreateFails
  <2>2. QED
    BY <1>3, <1>7, <2>1, EditSteps
<1>8. QED
  BY <1>1, <1>4, <1>5, <1>6, <1>7 DEF O!OverlaysNext

\* No panel and no form at first.
LEMMA InitOverlays == O!OverlaysInit => DiffInv /\ FillInv
<1> SUFFICES ASSUME O!OverlaysInit PROVE DiffInv /\ FillInv
  OBVIOUS
<1>1. panel = None /\ sockets = <<>> /\ request = None /\ fills = <<>>
  BY DEF O!OverlaysInit
<1>2. sockets \in Seq(Socket) /\ DOMAIN sockets = {} /\ fills \in Seq(Fill)
  BY <1>1
<1>3. QED
  BY <1>1, <1>2 DEF DiffInv, FillInv

\* They say that the panel has its stream, and the form its title.
LEMMA OverlaysShow == DiffInv /\ FillInv => StreamEndsWithPanel /\ TitleIsKept
BY DEF DiffInv, StreamEndsWithPanel, O!StreamEndsWithPanel, O!PanelShows, FillInv,
   TitleIsKept, O!TitleIsKept

\* A stream of diffs ends with its panel, no panel stays at "loading" after its stream,
\* and the title of a pull request is the one that was typed last, for any number of
\* panels, dialogs and requests.
THEOREM OverlaysEndAndKeep == O!OverlaysSpec => [](StreamEndsWithPanel /\ TitleIsKept)
<1>1. O!OverlaysInit => DiffInv /\ FillInv
  BY InitOverlays, BoardsAssumption
<1>2. DiffInv /\ FillInv /\ [O!OverlaysNext]_(O!overlayVars) => DiffInv' /\ FillInv'
  BY NextOverlays, BoardsAssumption
<1>3. QED
  BY <1>1, <1>2, OverlaysShow, PTL DEF O!OverlaysSpec

\* In particular no late answer replaces a title that was typed.
COROLLARY TitleStays == O!OverlaysSpec => []TitleIsKept
BY OverlaysEndAndKeep, PTL

-----------------------------------------------------------------------------
(* The texts of the panel of an issue *)

PanelText == Title \cup {None}
PanelCall ==
    [op : {"links", "delete"}, of : PanelIssue]
        \cup [op : {"save"}, of : PanelIssue, field : P!Field, text : PanelText]

PanelType ==
    /\ store \in [PanelIssue -> [P!Field -> PanelText]]
    /\ shown \in PanelIssue \cup {None}
    /\ edit \in [P!Field -> PanelText] /\ entered \in [P!Field -> PanelText \cup {"not typed"}]
    /\ timers \in SUBSET P!Field /\ (timers # {} => shown # None)
    /\ saves \in Seq(PanelCall) /\ swapped \in BOOLEAN

\* A save of a text of an issue, none, and the last one
SaveAt(s, n, x, f) == s[n].op = "save" /\ s[n].of = x /\ s[n].field = f
NoSave(s, x, f) == \A n \in DOMAIN s : ~SaveAt(s, n, x, f)
LastIs(s, x, f, v) ==
    \E n \in DOMAIN s : /\ SaveAt(s, n, x, f) /\ s[n].text = v
                        /\ \A m \in DOMAIN s : SaveAt(s, m, x, f) => m <= n

\* A text is stored, or the last save under way will store it.
Settled(s, x, f, v) == LastIs(s, x, f, v) \/ (NoSave(s, x, f) /\ store[x][f] = v)

\* What was typed is what the panel shows, and it is stored, or its timer runs, or a save
\* is under way behind which there is no other.
TextInv ==
    shown # None =>
        \A f \in P!Field : entered[f] # "not typed" =>
            /\ edit[f] = entered[f]
            /\ f \notin timers /\ ~swapped /\ (f = "title" => entered[f] # None)
                 => Settled(saves, shown, f, entered[f])

PanelInv == PanelType /\ TextInv

\* The forms of the requests.
LEMMA PanelCalls ==
    ASSUME NEW x \in PanelCall
    PROVE  /\ x.op \in {"links", "delete", "save"} /\ x.of \in PanelIssue
           /\ x.op = "save" => x.field \in P!Field /\ x.text \in PanelText
  BY DEF PanelCall

\* A request is sent.
LEMMA PanelSends ==
    ASSUME NEW s \in Seq(PanelCall), NEW c \in PanelCall, NEW x, NEW f
    PROVE  LET r == Append(s, c)
           IN  /\ r \in Seq(PanelCall)
               /\ ~(c.op = "save" /\ c.of = x /\ c.field = f)
                    => /\ NoSave(s, x, f) => NoSave(r, x, f)
                       /\ \A v : LastIs(s, x, f, v) => LastIs(r, x, f, v)
               /\ c.op = "save" /\ c.of = x /\ c.field = f => LastIs(r, x, f, c.text)
<1> DEFINE r == Append(s, c)
           last1 == Len(s) + 1
<1>1. /\ r \in Seq(PanelCall) /\ DOMAIN r = 1 .. last1 /\ DOMAIN s = 1 .. Len(s) /\ Len(s) \in Nat
      /\ r[last1] = c /\ \A n \in 1 .. Len(s) : r[n] = s[n]
  OBVIOUS
<1>2. \A n \in DOMAIN r : n \in DOMAIN s \/ n = last1
  BY <1>1
<1>3. last1 \in DOMAIN r /\ \A n \in DOMAIN s : n \in DOMAIN r /\ r[n] = s[n]
  BY <1>1
<1>4. \A n \in DOMAIN r : n <= last1
  BY <1>1
<1> HIDE DEF r, last1
<1>5. ASSUME ~(c.op = "save" /\ c.of = x /\ c.field = f)
      PROVE  /\ NoSave(s, x, f) => NoSave(r, x, f)
             /\ \A v : LastIs(s, x, f, v) => LastIs(r, x, f, v)
  <2>1. \A n \in DOMAIN r : SaveAt(r, n, x, f) => n \in DOMAIN s /\ SaveAt(s, n, x, f)
    BY <1>1, <1>2, <1>3, <1>5 DEF SaveAt
  <2>2. \A n \in DOMAIN s : SaveAt(s, n, x, f) => SaveAt(r, n, x, f)
    BY <1>3 DEF SaveAt
  <2>3. NoSave(s, x, f) => NoSave(r, x, f)
    BY <2>1 DEF NoSave
  <2>4. ASSUME NEW v, LastIs(s, x, f, v) PROVE LastIs(r, x, f, v)
    <3>1. PICK n \in DOMAIN s : /\ SaveAt(s, n, x, f) /\ s[n].text = v
                                /\ \A m \in DOMAIN s : SaveAt(s, m, x, f) => m <= n
      BY <2>4 DEF LastIs
    <3>2. /\ n \in DOMAIN r /\ SaveAt(r, n, x, f) /\ r[n].text = v
          /\ \A m \in DOMAIN r : SaveAt(r, m, x, f) => m <= n
      BY <1>3, <2>1, <2>2, <3>1
    <3>3. QED
      BY <3>2 DEF LastIs
  <2>5. QED
    BY <2>3, <2>4
<1>6. c.op = "save" /\ c.of = x /\ c.field = f => LastIs(r, x, f, c.text)
  BY <1>1, <1>3, <1>4 DEF LastIs, SaveAt
<1>7. QED
  BY <1>1, <1>5, <1>6 DEF r

\* A request is answered.
LEMMA PanelAnswered ==
    ASSUME NEW s \in Seq(PanelCall), NEW n \in DOMAIN s, NEW x, NEW f
    PROVE  LET r == Left(s, n)
           IN  /\ r \in Seq(PanelCall)
               /\ NoSave(s, x, f) => NoSave(r, x, f)
               /\ ~SaveAt(s, n, x, f) => \A v : LastIs(s, x, f, v) => LastIs(r, x, f, v)
               /\ SaveAt(s, n, x, f) /\ (\A m \in DOMAIN s : m < n => ~SaveAt(s, m, x, f))
                    => \A v : LastIs(s, x, f, v)
                                => LastIs(r, x, f, v) \/ (NoSave(r, x, f) /\ s[n].text = v)
<1> DEFINE r == Left(s, n)
           Back(m) == IF m < n THEN m ELSE m + 1
           Forth(m) == IF m < n THEN m ELSE m - 1
<1>1. r \in Seq(PanelCall) /\ DOMAIN r \subseteq Nat /\ DOMAIN s \subseteq Nat
  BY LeftIs
<1>2. /\ \A m \in DOMAIN r : Back(m) \in DOMAIN s \ {n} /\ r[m] = s[Back(m)]
      /\ \A m \in DOMAIN s \ {n} : Forth(m) \in DOMAIN r /\ r[Forth(m)] = s[m]
  BY LeftOrder
<1>3. \A m, l \in Nat : m # n /\ Back(l) <= m => l <= Forth(m)
  <2>1. n \in Nat
    BY <1>1
  <2>2. QED
    BY <2>1
<1> HIDE DEF r, Back, Forth
<1>4. \A m \in DOMAIN r : SaveAt(r, m, x, f) => SaveAt(s, Back(m), x, f)
  BY <1>2 DEF SaveAt
<1>5. NoSave(s, x, f) => NoSave(r, x, f)
  BY <1>2, <1>4 DEF NoSave
<1>6. ASSUME NEW m \in DOMAIN s \ {n}, NEW v, SaveAt(s, m, x, f), s[m].text = v,
             \A l \in DOMAIN s : SaveAt(s, l, x, f) => l <= m
      PROVE  LastIs(r, x, f, v)
  <2>1. Forth(m) \in DOMAIN r /\ SaveAt(r, Forth(m), x, f) /\ r[Forth(m)].text = v
    BY <1>2, <1>6 DEF SaveAt
  <2>2. ASSUME NEW l \in DOMAIN r, SaveAt(r, l, x, f) PROVE l <= Forth(m)
    <3>1. Back(l) <= m
      BY <1>2, <1>4, <1>6, <2>2
    <3>2. QED
      BY <1>1, <1>3, <3>1
  <2>3. QED
    BY <2>1, <2>2 DEF LastIs
<1>7. ASSUME ~SaveAt(s, n, x, f), NEW v, LastIs(s, x, f, v) PROVE LastIs(r, x, f, v)
  <2>1. PICK m \in DOMAIN s : /\ SaveAt(s, m, x, f) /\ s[m].text = v
                              /\ \A l \in DOMAIN s : SaveAt(s, l, x, f) => l <= m
    BY <1>7 DEF LastIs
  <2>2. m # n
    BY <1>7, <2>1
  <2>3. QED
    BY <1>6, <2>1, <2>2
<1>8. ASSUME SaveAt(s, n, x, f), \A m \in DOMAIN s : m < n => ~SaveAt(s, m, x, f),
             NEW v, LastIs(s, x, f, v)
      PROVE  LastIs(r, x, f, v) \/ (NoSave(r, x, f) /\ s[n].text = v)
  <2>1. PICK m \in DOMAIN s : /\ SaveAt(s, m, x, f) /\ s[m].text = v
                              /\ \A l \in DOMAIN s : SaveAt(s, l, x, f) => l <= m
    BY <1>8 DEF LastIs
  <2>2. CASE m # n
    BY <1>6, <2>1, <2>2
  <2>3. CASE m = n
    <3>1. ASSUME NEW l \in DOMAIN r, SaveAt(r, l, x, f) PROVE FALSE
      <4>1. Back(l) \in DOMAIN s \ {n} /\ SaveAt(s, Back(l), x, f)
        BY <1>2, <1>4, <3>1
      <4>2. Back(l) <= n
        BY <2>1, <2>3, <4>1
      <4>3. Back(l) < n
        BY <1>1, <4>1, <4>2
      <4>4. QED
        BY <1>8, <4>1, <4>3
    <3>2. QED
      BY <2>1, <2>3, <3>1 DEF NoSave
  <2>4. QED
    BY <2>2, <2>3
<1>9. QED
  BY <1>1, <1>5, <1>7, <1>8 DEF r

\* What a text is settled with stays when a request is sent that does not save it, or
\* one is answered that was none of its saves.
LEMMA SettledStays ==
    ASSUME PanelType, NEW x, NEW f, NEW v, Settled(saves, x, f, v), store'[x][f] = store[x][f],
           \/ \E c \in PanelCall : /\ ~(c.op = "save" /\ c.of = x /\ c.field = f)
                                   /\ saves' = Append(saves, c)
           \/ \E n \in DOMAIN saves : ~SaveAt(saves, n, x, f) /\ saves' = Left(saves, n)
           \/ saves' = saves
    PROVE  Settled(saves, x, f, v)'
<1>1. saves \in Seq(PanelCall)
  BY DEF PanelType
<1>2. /\ NoSave(saves, x, f) => NoSave(saves', x, f)
      /\ LastIs(saves, x, f, v) => LastIs(saves', x, f, v)
  <2>1. CASE \E c \in PanelCall : /\ ~(c.op = "save" /\ c.of = x /\ c.field = f)
                                  /\ saves' = Append(saves, c)
    BY <1>1, <2>1, PanelSends
  <2>2. CASE \E n \in DOMAIN saves : ~SaveAt(saves, n, x, f) /\ saves' = Left(saves, n)
    BY <1>1, <2>2, PanelAnswered
  <2>3. CASE saves' = saves
    BY <2>3
  <2>4. QED
    BY <2>1, <2>2, <2>3
<1>3. QED
  BY <1>2 DEF Settled

\* A text that is not typed again, whose timer and history do not change, keeps what
\* it is settled with.
LEMMA TextStays ==
    ASSUME PanelInv, shown' = shown, edit' = edit, entered' = entered,
           timers' = timers, ~swapped' => ~swapped,
           store' = store,
           \/ \E c \in PanelCall : c.op # "save" /\ saves' = Append(saves, c)
           \/ \E n \in DOMAIN saves :
                 saves' = Left(saves, n) /\ (~swapped' => saves[n].op # "save")
           \/ saves' = saves
    PROVE  TextInv'
<1> SUFFICES ASSUME shown # None, NEW f \in P!Field, entered[f] # "not typed"
             PROVE  /\ edit[f] = entered[f]
                    /\ f \notin timers /\ ~swapped' /\ (f = "title" => entered[f] # None)
                         => Settled(saves, shown, f, entered[f])'
  BY DEF TextInv
<1>1. PanelType /\ TextInv
  BY DEF PanelInv
<1>2. edit[f] = entered[f]
  BY <1>1 DEF TextInv
<1>3. ASSUME f \notin timers, ~swapped', f = "title" => entered[f] # None
      PROVE  Settled(saves, shown, f, entered[f])'
  <2>1. Settled(saves, shown, f, entered[f])
    BY <1>1, <1>3 DEF TextInv
  <2>2. \/ \E c \in PanelCall : /\ ~(c.op = "save" /\ c.of = shown /\ c.field = f)
                                /\ saves' = Append(saves, c)
        \/ \E n \in DOMAIN saves : ~SaveAt(saves, n, shown, f) /\ saves' = Left(saves, n)
        \/ saves' = saves
    BY <1>3 DEF SaveAt
  <2>3. QED
    BY <1>1, <2>1, <2>2, SettledStays
<1>4. QED
  BY <1>2, <1>3

\* The panel is shown and hidden.
LEMMA ShowSteps ==
    ASSUME PanelInv, P!PanelAssumption,
           \/ \E x \in PanelIssue : P!Show(x)
           \/ P!Close
           \/ \E n \in 1 .. MaxPanelCalls : P!Deleted(n)
    PROVE  PanelInv'
<1>1. PanelType
  BY DEF PanelInv
<1>2. CASE \E x \in PanelIssue : P!Show(x)
  <2>1. PICK x \in PanelIssue : P!Show(x)
    BY <1>2
  <2> DEFINE c == [op |-> "links", of |-> x]
  <2>2. /\ shown' = x /\ edit' = store[x] /\ entered' = P!Untyped /\ timers' = {}
        /\ saves' = Append(saves, c)
        /\ UNCHANGED <<store, swapped>>
    BY <2>1 DEF P!Show, P!Ask
  <2>3. c \in PanelCall
    BY DEF PanelCall
  <2> HIDE DEF c
  <2>4. saves' \in Seq(PanelCall)
    <3>1. saves \in Seq(PanelCall)
      BY <1>1 DEF PanelType
    <3>2. QED
      BY <2>2, <2>3, <3>1, HeldMore
  <2>5. /\ P!Untyped \in [P!Field -> PanelText \cup {"not typed"}]
        /\ \A f \in P!Field : P!Untyped[f] = "not typed"
    BY DEF P!Untyped
  <2>6. PanelType'
    BY <1>1, <2>2, <2>4, <2>5 DEF PanelType
  <2>7. TextInv'
    BY <2>2, <2>5 DEF TextInv
  <2>8. QED
    BY <2>6, <2>7 DEF PanelInv
<1>3. ASSUME P!Hidden, saves' \in Seq(PanelCall), UNCHANGED <<store, swapped>>
      PROVE  PanelInv'
  <2>1. /\ shown' = None /\ timers' = {} /\ entered' = P!Untyped /\ edit' = edit
    BY <1>3 DEF P!Hidden
  <2>2. P!Untyped \in [P!Field -> PanelText \cup {"not typed"}]
    BY DEF P!Untyped
  <2>3. QED
    BY <1>1, <1>3, <2>1, <2>2 DEF PanelInv, PanelType, TextInv
<1>4. CASE P!Close
  <2>1. P!Hidden /\ UNCHANGED <<store, swapped, saves>>
    BY <1>4 DEF P!Close, P!network
  <2>2. QED
    BY <1>1, <1>3, <2>1 DEF PanelType
<1>5. CASE \E n \in 1 .. MaxPanelCalls : P!Deleted(n)
  <2>1. PICK n \in 1 .. MaxPanelCalls : P!Deleted(n)
    BY <1>5
  <2>2. n \in DOMAIN saves /\ P!Hidden /\ saves' = Left(saves, n) /\ UNCHANGED <<store, swapped>>
    BY <2>1 DEF P!Deleted, P!Rest, P!RemoveAt, Left
  <2>3. saves' \in Seq(PanelCall)
    BY <1>1, <2>2, LeftIs DEF PanelType
  <2>4. QED
    BY <1>3, <2>2, <2>3
<1>6. QED
  BY <1>2, <1>4, <1>5

\* A text is saved: no save of it is behind this one.
LEMMA SaveSettles ==
    ASSUME PanelInv, P!PanelAssumption, shown # None, NEW f \in P!Field, P!Save(f),
           shown' = shown, edit' = edit, entered' = entered, timers' = timers \ {f},
           store' = store, swapped' = swapped
    PROVE  PanelInv'
<1>1. PanelType /\ TextInv
  BY DEF PanelInv
<1>2. \A x \in P!Field : x \notin timers' => x \notin timers \/ x = f
  OBVIOUS
<1>3. CASE f = "title" /\ edit[f] = None
  <2>1. saves' = saves
    BY <1>3 DEF P!Save, P!network
  <2>2. PanelType'
    BY <1>1, <2>1 DEF PanelType
  <2>3. TextInv'
    <3> SUFFICES ASSUME NEW x \in P!Field, entered[x] # "not typed"
                 PROVE  /\ edit[x] = entered[x]
                        /\ x \notin timers' /\ ~swapped /\ (x = "title" => entered[x] # None)
                             => Settled(saves, shown, x, entered[x])'
      BY DEF TextInv
    <3>1. edit[x] = entered[x]
      BY <1>1 DEF TextInv
    <3>2. ASSUME x \notin timers', ~swapped, x = "title" => entered[x] # None
          PROVE  Settled(saves, shown, x, entered[x])'
      <4>1. x \notin timers
        BY <1>2, <1>3, <3>1, <3>2
      <4>2. Settled(saves, shown, x, entered[x])
        BY <1>1, <3>2, <4>1 DEF TextInv
      <4>3. QED
        BY <1>1, <2>1, <4>2, SettledStays
    <3>3. QED
      BY <3>1, <3>2
  <2>4. QED
    BY <2>2, <2>3 DEF PanelInv
<1>4. CASE ~(f = "title" /\ edit[f] = None)
  <2> DEFINE c == [op |-> "save", of |-> shown, field |-> f, text |-> edit[f]]
  <2>1. saves' = Append(saves, c)
    BY <1>4 DEF P!Save, P!Ask
  <2>2. c \in PanelCall /\ c.op = "save" /\ c.of = shown /\ c.field = f /\ c.text = edit[f]
    BY <1>1 DEF PanelCall, PanelType
  <2> HIDE DEF c
  <2>3. PanelType'
    <3>1. saves \in Seq(PanelCall)
      BY <1>1 DEF PanelType
    <3>2. saves' \in Seq(PanelCall)
      BY <2>1, <2>2, <3>1, HeldMore
    <3>3. QED
      BY <1>1, <3>2 DEF PanelType
  <2>4. TextInv'
    <3> SUFFICES ASSUME NEW x \in P!Field, entered[x] # "not typed"
                 PROVE  /\ edit[x] = entered[x]
                        /\ x \notin timers' /\ ~swapped /\ (x = "title" => entered[x] # None)
                             => Settled(saves, shown, x, entered[x])'
      BY DEF TextInv
    <3>1. edit[x] = entered[x]
      BY <1>1 DEF TextInv
    <3>2. CASE x = f
      <4>1. LastIs(saves', shown, f, edit[f])
        BY <1>1, <2>1, <2>2, PanelSends DEF PanelType
      <4>2. QED
        BY <3>1, <3>2, <4>1 DEF Settled
    <3>3. ASSUME x # f, x \notin timers', ~swapped, x = "title" => entered[x] # None
          PROVE  Settled(saves, shown, x, entered[x])'
      <4>1. x \notin timers
        BY <1>2, <3>3
      <4>2. Settled(saves, shown, x, entered[x])
        BY <1>1, <3>3, <4>1 DEF TextInv
      <4>3. QED
        BY <1>1, <2>1, <2>2, <3>3, <4>2, SettledStays
    <3>4. QED
      BY <3>1, <3>2, <3>3
  <2>5. QED
    BY <2>3, <2>4 DEF PanelInv
<1>5. QED
  BY <1>3, <1>4

\* A text is typed, and its timer fires or its field is left.
LEMMA TypeSteps ==
    ASSUME PanelInv, P!PanelAssumption,
           \/ \E f \in P!Field, v \in PanelText : P!Type(f, v)
           \/ \E f \in P!Field : P!Fire(f)
           \/ P!LeaveDescription
    PROVE  PanelInv'
<1>1. PanelType /\ TextInv
  BY DEF PanelInv
<1>2. CASE \E f \in P!Field, v \in PanelText : P!Type(f, v)
  <2>1. PICK f \in P!Field, v \in PanelText : P!Type(f, v)
    BY <1>2
  <2>2. /\ edit' = [edit EXCEPT ![f] = v] /\ timers' = timers \cup {f}
        /\ entered' = [entered EXCEPT ![f] = v] /\ shown # None
        /\ UNCHANGED <<store, shown, saves, swapped>>
    BY <2>1 DEF P!Type, P!network
  <2>3. PanelType'
    BY <1>1, <2>2 DEF PanelType
  <2>4. TextInv'
    <3> SUFFICES ASSUME NEW x \in P!Field, entered'[x] # "not typed"
                 PROVE  /\ edit'[x] = entered'[x]
                        /\ x \notin timers' /\ ~swapped /\ (x = "title" => entered'[x] # None)
                             => Settled(saves, shown, x, entered[x])'
      BY <2>2 DEF TextInv
    <3>1. CASE x = f
      BY <1>1, <2>2, <3>1 DEF PanelType
    <3>2. CASE x # f
      <4>1. edit'[x] = edit[x] /\ entered'[x] = entered[x] /\ (x \notin timers' => x \notin timers)
        BY <1>1, <2>2, <3>2 DEF PanelType
      <4>2. edit[x] = entered[x]
        BY <1>1, <2>2, <4>1 DEF TextInv
      <4>3. ASSUME x \notin timers, ~swapped, x = "title" => entered[x] # None
            PROVE  Settled(saves, shown, x, entered[x])'
        <5>1. Settled(saves, shown, x, entered[x])
          BY <1>1, <2>2, <4>1, <4>3 DEF TextInv
        <5>2. Settled(saves', shown, x, entered'[x])
          BY <2>2, <4>1, <5>1
        <5>3. QED
          BY <2>2, <5>2 DEF Settled
      <4>4. QED
        BY <4>1, <4>2, <4>3
    <3>3. QED
      BY <3>1, <3>2
  <2>5. QED
    BY <2>3, <2>4 DEF PanelInv
<1>3. CASE \E f \in P!Field : P!Fire(f)
  <2>1. PICK f \in P!Field : P!Fire(f)
    BY <1>3
  <2>2. /\ f \in timers /\ timers' = timers \ {f} /\ P!Save(f)
        /\ UNCHANGED <<store, shown, edit, entered, swapped>>
    BY <2>1 DEF P!Fire
  <2>3. shown # None
    BY <1>1, <2>2 DEF PanelType
  <2>4. QED
    BY <2>2, <2>3, SaveSettles
<1>4. CASE P!LeaveDescription
  <2>1. /\ shown # None /\ timers' = timers \ {"description"} /\ P!Save("description")
        /\ UNCHANGED <<store, shown, edit, entered, swapped>>
    BY <1>4 DEF P!LeaveDescription
  <2>2. "description" \in P!Field
    BY DEF P!Field
  <2>3. QED
    BY <2>1, <2>2, SaveSettles
<1>5. QED
  BY <1>2, <1>3, <1>4

\* A save is answered: unless it overtook an older one it is the first of its issue.
LEMMA SavedStep ==
    ASSUME PanelInv, P!PanelAssumption, NEW n \in 1 .. MaxPanelCalls, P!Saved(n)
    PROVE  PanelInv'
<1>1. PanelType /\ TextInv
  BY DEF PanelInv
<1> DEFINE c == saves[n]
<1>2. /\ n \in DOMAIN saves /\ c.op = "save"
      /\ store' = [store EXCEPT ![c.of][c.field] = c.text]
      /\ swapped' = (swapped
            \/ \E m \in 1 .. n - 1 : saves[m].op = "save" /\ saves[m].of = c.of)
      /\ saves' = Left(saves, n)
      /\ UNCHANGED <<shown, edit, timers, entered>>
  BY DEF P!Saved, P!Rest, P!RemoveAt, Left, P!texts
<1>3. c \in PanelCall /\ c.of \in PanelIssue /\ c.field \in P!Field /\ c.text \in PanelText
  <2>1. saves \in Seq(PanelCall) /\ n \in DOMAIN saves
    BY <1>1, <1>2 DEF PanelType
  <2>2. c \in PanelCall
    BY <2>1, HeldLess
  <2>3. QED
    BY <1>2, <2>2, PanelCalls
<1>4. DOMAIN saves \subseteq Nat \ {0} /\ n \in Nat \ {0}
  <2>1. saves \in Seq(PanelCall)
    BY <1>1 DEF PanelType
  <2>2. QED
    BY <2>1
<1> HIDE DEF c
<1>5. /\ store' \in [PanelIssue -> [P!Field -> PanelText]]
      /\ store'[c.of][c.field] = c.text
      /\ \A x \in PanelIssue, f \in P!Field :
            ~(x = c.of /\ f = c.field) => store'[x][f] = store[x][f]
  <2> DEFINE g == [store[c.of] EXCEPT ![c.field] = c.text]
  <2>1. store' = [store EXCEPT ![c.of] = g] /\ store[c.of] \in [P!Field -> PanelText]
    BY <1>1, <1>2, <1>3 DEF PanelType
  <2>2. /\ g \in [P!Field -> PanelText] /\ g[c.field] = c.text
        /\ \A f \in P!Field : f # c.field => g[f] = store[c.of][f]
    BY <1>3, <2>1
  <2> HIDE DEF g
  <2>3. /\ store' \in [PanelIssue -> [P!Field -> PanelText]] /\ store'[c.of] = g
        /\ \A x \in PanelIssue : x # c.of => store'[x] = store[x]
    BY <1>1, <1>3, <2>1, <2>2 DEF PanelType
  <2>4. QED
    BY <2>2, <2>3
<1>6. PanelType'
  <2>1. saves' \in Seq(PanelCall)
    BY <1>1, <1>2, LeftIs DEF PanelType
  <2>2. swapped' \in BOOLEAN
    BY <1>1, <1>2 DEF PanelType
  <2>3. QED
    BY <1>1, <1>2, <1>5, <2>1, <2>2 DEF PanelType
<1>7. TextInv'
  <2> SUFFICES ASSUME shown # None, NEW f \in P!Field, entered[f] # "not typed"
               PROVE  /\ edit[f] = entered[f]
                      /\ f \notin timers /\ ~swapped' /\ (f = "title" => entered[f] # None)
                           => Settled(saves, shown, f, entered[f])'
    BY <1>2 DEF TextInv
  <2>1. edit[f] = entered[f]
    BY <1>1 DEF TextInv
  <2>2. ASSUME f \notin timers, ~swapped', f = "title" => entered[f] # None
        PROVE  Settled(saves, shown, f, entered[f])'
    <3>1. ~swapped /\ \A m \in 1 .. n - 1 : ~(saves[m].op = "save" /\ saves[m].of = c.of)
      BY <1>2, <2>2
    <3>2. Settled(saves, shown, f, entered[f])
      BY <1>1, <2>2, <3>1 DEF TextInv
    <3>3. shown \in PanelIssue /\ shown' = shown /\ entered' = entered
      BY <1>1, <1>2 DEF PanelType
    <3>4. CASE ~(c.of = shown /\ c.field = f)
      <4>1. ~SaveAt(saves, n, shown, f)
        BY <3>4 DEF SaveAt, c
      <4>2. store'[shown][f] = store[shown][f]
        BY <1>5, <3>3, <3>4
      <4>3. QED
        BY <1>1, <1>2, <3>2, <3>3, <4>1, <4>2, SettledStays
    <3>5. CASE c.of = shown /\ c.field = f
      <4>1. SaveAt(saves, n, shown, f)
        BY <1>2, <3>5 DEF SaveAt, c
      <4>2. ASSUME NEW m \in DOMAIN saves, m < n PROVE ~SaveAt(saves, m, shown, f)
        <5>1. m \in Nat \ {0} /\ n \in Nat \ {0}
          BY <1>4
        <5>2. m \in 1 .. n - 1
          BY <4>2, <5>1, EarlierIs
        <5>3. QED
          BY <3>1, <3>5, <5>2 DEF SaveAt
      <4>3. LastIs(saves, shown, f, entered[f])
        BY <1>2, <3>2, <4>1 DEF Settled, NoSave
      <4>4. \/ LastIs(saves', shown, f, entered[f])
            \/ NoSave(saves', shown, f) /\ c.text = entered[f]
        <5>1. saves \in Seq(PanelCall)
          BY <1>1 DEF PanelType
        <5>2. QED
          BY <1>2, <4>1, <4>2, <4>3, <5>1, PanelAnswered DEF c
      <4>5. store'[shown][f] = c.text
        BY <1>5, <3>5
      <4>6. QED
        BY <3>3, <4>4, <4>5 DEF Settled
    <3>6. QED
      BY <3>4, <3>5
  <2>3. QED
    BY <2>1, <2>2
<1>8. QED
  BY <1>6, <1>7 DEF PanelInv

\* Steps that touch no text.
LEMMA PanelOthers ==
    ASSUME PanelInv, P!PanelAssumption,
           \/ \E s \in P!Sheet : P!OpenSheet(s)
           \/ P!EditDescription \/ P!HintEnds \/ P!CloseSheet \/ P!Delete
           \/ \E n \in 1 .. MaxPanelCalls : P!LinksArrive(n) \/ P!Fails(n)
    PROVE  PanelInv'
<1>1. PanelType /\ TextInv
  BY DEF PanelInv
<1>2. /\ UNCHANGED <<store, shown, edit, timers, entered>>
  BY DEF P!OpenSheet, P!EditDescription, P!HintEnds, P!CloseSheet, P!Delete, P!LinksArrive,
     P!Fails, P!texts
<1>3. /\ saves' \in Seq(PanelCall) /\ swapped' \in BOOLEAN /\ (~swapped' => ~swapped)
      /\ \/ \E c \in PanelCall : c.op # "save" /\ saves' = Append(saves, c)
         \/ \E n \in DOMAIN saves :
               saves' = Left(saves, n) /\ (~swapped' => saves[n].op # "save")
         \/ saves' = saves
  <2>1. CASE \/ \E s \in P!Sheet : P!OpenSheet(s)
             \/ P!EditDescription \/ P!HintEnds \/ P!CloseSheet
    <3>1. saves' = saves /\ swapped' = swapped
      BY <2>1 DEF P!OpenSheet, P!EditDescription, P!HintEnds, P!CloseSheet, P!network
    <3>2. QED
      BY <1>1, <3>1 DEF PanelType
  <2>2. CASE P!Delete
    <3> DEFINE c == [op |-> "delete", of |-> shown]
    <3>1. saves' = Append(saves, c) /\ swapped' = swapped /\ shown # None
      BY <2>2 DEF P!Delete, P!Ask
    <3>2. c \in PanelCall /\ c.op # "save"
      BY <1>1, <3>1 DEF PanelCall, PanelType
    <3> HIDE DEF c
    <3>3. saves \in Seq(PanelCall)
      BY <1>1 DEF PanelType
    <3>4. saves' \in Seq(PanelCall)
      BY <3>1, <3>2, <3>3, HeldMore
    <3>5. QED
      BY <1>1, <3>1, <3>2, <3>4 DEF PanelType
  <2>3. CASE \E n \in 1 .. MaxPanelCalls : P!LinksArrive(n) \/ P!Fails(n)
    <3>1. PICK n \in 1 .. MaxPanelCalls : P!LinksArrive(n) \/ P!Fails(n)
      BY <2>3
    <3>2. n \in DOMAIN saves /\ saves' = Left(saves, n)
      BY <3>1 DEF P!LinksArrive, P!Fails, P!Rest, P!RemoveAt, Left
    <3>3. /\ swapped' \in BOOLEAN /\ (~swapped' => ~swapped)
          /\ ~swapped' => saves[n].op # "save"
      <4>1. CASE P!LinksArrive(n)
        BY <1>1, <4>1 DEF P!LinksArrive, PanelType
      <4>2. CASE P!Fails(n)
        <5>1. swapped' = (swapped \/ saves[n].op = "save")
          BY <4>2 DEF P!Fails
        <5>2. QED
          BY <1>1, <5>1 DEF PanelType
      <4>3. QED
        BY <3>1, <4>1, <4>2
    <3>4. saves' \in Seq(PanelCall)
      BY <1>1, <3>2, LeftIs DEF PanelType
    <3>5. QED
      BY <3>2, <3>3, <3>4
  <2>4. QED
    BY <2>1, <2>2, <2>3
<1>4. TextInv'
  BY <1>2, <1>3, TextStays
<1>5. PanelType'
  BY <1>1, <1>2, <1>3 DEF PanelType
<1>6. QED
  BY <1>4, <1>5 DEF PanelInv

\* Every step of the panel keeps it.
LEMMA NextPanel ==
    ASSUME P!PanelAssumption
    PROVE  PanelInv /\ [P!PanelNext]_(P!panelVars) => PanelInv'
<1> SUFFICES ASSUME PanelInv, [P!PanelNext]_(P!panelVars) PROVE PanelInv'
  OBVIOUS
<1>1. CASE UNCHANGED P!panelVars
  BY <1>1 DEF P!panelVars, P!texts, P!network, PanelInv, PanelType, TextInv, Settled
<1>2. CASE P!PanelNext
  BY <1>2, ShowSteps, TypeSteps, SavedStep, PanelOthers DEF P!PanelNext, PanelText
<1>3. QED
  BY <1>1, <1>2

\* No issue is shown at first.
LEMMA InitPanel == P!PanelInit => PanelInv
<1> SUFFICES ASSUME P!PanelInit PROVE PanelInv
  OBVIOUS
<1>1. /\ store = [x \in PanelIssue |-> [f \in P!Field |-> None]]
      /\ shown = None /\ edit = [f \in P!Field |-> None]
      /\ timers = {} /\ saves = <<>> /\ entered = P!Untyped /\ swapped = FALSE
  BY DEF P!PanelInit
<1>2. saves \in Seq(PanelCall)
  BY <1>1
<1>3. PanelType
  BY <1>1, <1>2 DEF PanelType, PanelText, P!Untyped
<1>4. QED
  BY <1>1, <1>3 DEF PanelInv, TextInv

\* It says that a text is stored once its saves are answered.
LEMMA PanelShowsTexts == PanelInv => TextIsStored
<1> SUFFICES ASSUME PanelInv, shown # None, ~swapped,
                    \A n \in DOMAIN saves : saves[n].op # "save",
                    NEW f \in P!Field \ timers, entered[f] # "not typed",
                    f = "title" => entered[f] # None
             PROVE  edit[f] = entered[f] /\ store[shown][f] = entered[f]
  BY DEF TextIsStored, P!TextIsStored
<1>1. edit[f] = entered[f] /\ Settled(saves, shown, f, entered[f])
  BY DEF PanelInv, TextInv
<1>2. QED
  BY <1>1 DEF Settled, LastIs, SaveAt

\* Both texts typed into the panel of an issue are stored once nothing is under way, for
\* any number of issues, texts and saves, unless a save failed or was overtaken.
THEOREM TextsAreStored == P!PanelSpec => []TextIsStored
<1>1. P!PanelInit => PanelInv
  BY InitPanel, BoardsAssumption
<1>2. PanelInv /\ [P!PanelNext]_(P!panelVars) => PanelInv'
  BY NextPanel, BoardsAssumption
<1>3. QED
  BY <1>1, <1>2, PanelShowsTexts, PTL DEF P!PanelSpec

-----------------------------------------------------------------------------
(* The quick buttons *)

Said == {proposal, report}

\* What can be offered for a message
Belongs(x, m) == x = Q!Plain(m) \/ \E reply \in Replies : x = Q!WithReply(m, reply)

\* The buttons are those of the message that was analysed, and that is the last one
\* unless the model owes an answer.
ButtonsInv ==
    /\ questions \in Seq(Said) /\ hash \in Said \cup {None} /\ last \in Said \cup {None}
    /\ outdated \in BOOLEAN
    /\ hash = None => buttons = Q!Nothing
    /\ hash # None => Belongs(buttons, hash)
    /\ questions = <<>> /\ ~outdated => hash = last

\* A list of messages comes in.
LEMMA LoadButtons ==
    ASSUME ButtonsInv, Q!ButtonsAssumption, NEW m \in Said \cup {None}, Q!Load(m)
    PROVE  ButtonsInv'
<1>1. last' = m /\ None \notin Said
  BY DEF Q!Load, Q!ButtonsAssumption, Said
<1>2. CASE busy
  <2>1. /\ outdated' = (outdated \/ m # last)
        /\ UNCHANGED <<buttons, hash, questions>>
    BY <1>2 DEF Q!Load
  <2>2. outdated' \in BOOLEAN
    BY <2>1 DEF ButtonsInv
  <2>3. questions' = <<>> /\ ~outdated' => hash' = last'
    BY <1>1, <2>1 DEF ButtonsInv
  <2>4. QED
    BY <1>1, <2>1, <2>2, <2>3 DEF ButtonsInv
<1>3. CASE ~busy
  <2>1. outdated' = FALSE /\ Q!Analyse(m)
    BY <1>3 DEF Q!Load, Q!Analyse
  <2>2. CASE m = None
    BY <1>1, <2>1, <2>2 DEF Q!Analyse, Q!Forget, ButtonsInv
  <2>3. CASE m # None /\ hash = m
    <3>1. UNCHANGED <<buttons, hash, questions>>
      BY <2>1, <2>3 DEF Q!Analyse, Q!IsCached
    <3>2. QED
      BY <1>1, <2>1, <2>3, <3>1 DEF ButtonsInv
  <2>4. CASE m # None /\ hash # m /\ llm
    <3>1. questions' = Append(questions, m) /\ UNCHANGED <<buttons, hash>>
      BY <2>1, <2>4 DEF Q!Analyse, Q!IsCached, Q!AskModel
    <3>2. questions' \in Seq(Said) /\ questions' # <<>>
      <4>1. questions \in Seq(Said) /\ m \in Said
        BY <2>4 DEF ButtonsInv
      <4>2. QED
        BY <3>1, <4>1
    <3>3. QED
      BY <1>1, <2>1, <3>1, <3>2 DEF ButtonsInv
  <2>5. CASE m # None /\ hash # m /\ ~llm
    <3>1. buttons' = Q!Plain(m) /\ hash' = m /\ UNCHANGED questions
      BY <2>1, <2>5 DEF Q!Analyse, Q!IsCached, Q!OfferPlain
    <3>2. QED
      BY <1>1, <2>1, <2>5, <3>1 DEF ButtonsInv, Belongs
  <2>6. QED
    BY <2>2, <2>3, <2>4, <2>5
<1>4. QED
  BY <1>2, <1>3

\* The model answers.
LEMMA ModelAnswers ==
    ASSUME ButtonsInv, Q!ButtonsAssumption, NEW n \in 1 .. MaxQuestions, NEW reply \in Replies,
           Q!Answered(n, reply)
    PROVE  ButtonsInv'
<1>1. /\ n \in DOMAIN questions
      /\ buttons' = Q!WithReply(questions[n], reply) /\ hash' = questions[n]
      /\ outdated' = (questions[n] # last) /\ questions' = Left(questions, n)
      /\ last' = last
  BY DEF Q!Answered, Q!RemoveAt, Left
<1>2. questions[n] \in Said /\ questions' \in Seq(Said)
  <2>1. questions \in Seq(Said)
    BY DEF ButtonsInv
  <2>2. QED
    BY <1>1, <2>1, LeftIs
<1>3. questions[n] # None
  BY <1>2 DEF Q!ButtonsAssumption, Said
<1>4. Belongs(buttons', hash')
  BY <1>1 DEF Belongs
<1>5. outdated' \in BOOLEAN /\ (~outdated' => hash' = last')
  BY <1>1
<1>6. QED
  BY <1>1, <1>2, <1>3, <1>4, <1>5 DEF ButtonsInv

\* Every step of the buttons keeps it.
LEMMA NextButtons ==
    ASSUME Q!ButtonsAssumption
    PROVE  ButtonsInv /\ [Q!ButtonsNext]_(Q!buttonVars) => ButtonsInv'
<1> SUFFICES ASSUME ButtonsInv, [Q!ButtonsNext]_(Q!buttonVars) PROVE ButtonsInv'
  OBVIOUS
<1>1. CASE UNCHANGED Q!buttonVars
  BY <1>1 DEF Q!buttonVars, ButtonsInv
<1>2. CASE \E m \in Said : Q!Frame(m)
  BY <1>2 DEF Q!Frame, ButtonsInv
<1>3. CASE Q!StatusChanges
  BY <1>3 DEF Q!StatusChanges, ButtonsInv
<1>4. QED
  BY <1>1, <1>2, <1>3, LoadButtons, ModelAnswers DEF Q!ButtonsNext, Said

\* Nothing is offered at first.
LEMMA InitButtons == Q!ButtonsInit => ButtonsInv
<1> SUFFICES ASSUME Q!ButtonsInit PROVE ButtonsInv
  OBVIOUS
<1>1. /\ last = None /\ buttons = Q!Nothing /\ hash = None /\ questions = <<>>
      /\ outdated = FALSE
  BY DEF Q!ButtonsInit
<1>2. questions \in Seq(Said)
  BY <1>1
<1>3. QED
  BY <1>1, <1>2 DEF ButtonsInv

\* It says whose the buttons are.
LEMMA ButtonsShow == ButtonsInv => ButtonsBelong
BY DEF ButtonsInv, Belongs, ButtonsBelong, Q!ButtonsBelong

\* The buttons belong to the last message, whatever the patterns find in a message and
\* the model replies, and in whatever order it does.
THEOREM ButtonsAreOfTheLast == Q!ButtonsSpec => []ButtonsBelong
<1>1. Q!ButtonsInit => ButtonsInv
  BY InitButtons, BoardsAssumption
<1>2. ButtonsInv /\ [Q!ButtonsNext]_(Q!buttonVars) => ButtonsInv'
  BY NextButtons, BoardsAssumption
<1>3. QED
  BY <1>1, <1>2, ButtonsShow, PTL DEF Q!ButtonsSpec

-----------------------------------------------------------------------------
(* The board of issues *)

Listings == UNION {[y -> I!Content] : y \in SUBSET Issue}
IssueCall ==
    [op : {"load"}, of : Project, told : BOOLEAN, silent : BOOLEAN, served : BOOLEAN,
     got : Listings]
    \cup [op : {"save"}, of : Issue, field : {"title"}, value : Title, told : BOOLEAN]
    \cup [op : {"save"}, of : Issue, field : {"status"}, value : Status, told : BOOLEAN]
    \cup [op : {"delete"}, of : Issue, told : BOOLEAN]
    \cup [op : {"create"}, of : Project, title : Title, told : BOOLEAN]
Copied == [id : Issue, title : Title, status : Status]
FormType == [visible : BOOLEAN, title : Title \cup {None}, submitting : BOOLEAN]

IssueType ==
    /\ tasks \in [Issue -> I!Content \cup {None}]
    /\ project \in Project \cup {None}
    /\ columns.tasks \in Listings
    /\ loading \in BOOLEAN /\ error \in BOOLEAN /\ mixed \in BOOLEAN
    /\ issue \in Copied \cup {I!NoIssue}
    /\ title \in Title \cup {None} /\ typed \in Title \cup {None}
    /\ timer \in BOOLEAN /\ (timer => issue \in Copied)
    /\ left \subseteq [id : Issue, title : Title \cup {None}]
    /\ form \in FormType
    /\ loads \in Seq(IssueCall)

\* Before a project is selected there is nothing.
NoProject ==
    project = None =>
        columns.of = None /\ ~error /\ issue = I!NoIssue /\ left = {} /\ loads = <<>>

\* The loads that the board waits for: a notice is shown while one of them lasts, and
\* the columns are what the server has, or what the last of them will bring.
ToldLoads == {c \in IssueCall : c.op = "load" /\ c.told}
Noticed(s) == \E c \in Held(s) : c \in ToldLoads /\ ~c.silent
Current(s) ==
    /\ NoneOf(s, ToldLoads) =>
          ~loading /\ columns = [of |-> project, tasks |-> I!Listing(project)]
    /\ \A c : LastIn(s, ToldLoads, c) =>
          c.of = project /\ (c.served => c.got = I!Listing(project))
ColumnsInv ==
    ~mixed => (loading => Noticed(loads)) /\ (project # None => Current(loads))

\* The saves of a title that the panel waits for: it is what was typed last, or the
\* last of them will make it so.
TitlesOf(x) ==
    {c \in IssueCall : c.op = "save" /\ c.told /\ c.field = "title" /\ c.of = x}
Brought(s, x, v) ==
    /\ NoneOf(s, TitlesOf(x)) => tasks[x] # None /\ tasks[x].title = v
    /\ \A c : LastIn(s, TitlesOf(x), c) => c.value = v
TitleInv ==
    ~mixed /\ issue.id # None /\ typed # None
        => title = typed /\ (timer \/ Brought(loads, issue.id, typed))

IssueInv == IssueType /\ NoProject /\ ColumnsInv /\ TitleInv

\* The forms of the requests.
LEMMA IssueCalls ==
    ASSUME NEW c \in IssueCall
    PROVE  /\ c.op \in {"load", "save", "delete", "create"} /\ c.told \in BOOLEAN
           /\ c.op = "load" => /\ c.of \in Project /\ c.silent \in BOOLEAN
                               /\ c.served \in BOOLEAN /\ c.got \in Listings
           /\ c.op = "save" => /\ c.of \in Issue /\ c.field \in {"title", "status"}
                               /\ c.field = "title" => c.value \in Title
                               /\ c.field = "status" => c.value \in Status
           /\ c.op = "delete" => c.of \in Issue
           /\ c.op = "create" => c.of \in Project /\ c.title \in Title
           /\ [c EXCEPT !.told = FALSE] \in IssueCall
<1>1. CASE c.op = "load"
  BY <1>1 DEF IssueCall
<1>2. CASE c.op = "save"
  BY <1>2 DEF IssueCall
<1>3. CASE c.op = "delete"
  BY <1>3 DEF IssueCall
<1>4. CASE c.op = "create"
  BY <1>4 DEF IssueCall
<1>5. c.op \in {"load", "save", "delete", "create"}
  BY DEF IssueCall
<1>6. QED
  BY <1>1, <1>2, <1>3, <1>4, <1>5

\* The requests that are sent.
LEMMA IssueAsks ==
    /\ \A x \in Project, y \in BOOLEAN :
          /\ I!LoadOf(x, y) \in ToldLoads /\ ToldLoads \subseteq IssueCall
          /\ I!LoadOf(x, y).of = x /\ I!LoadOf(x, y).silent = y /\ ~I!LoadOf(x, y).served
          /\ \A w : I!LoadOf(x, y) \notin TitlesOf(w)
    /\ \A x \in Issue, v \in Title, y \in BOOLEAN :
          /\ I!SaveOf(x, "title", v, y) \in IssueCall \ ToldLoads
          /\ I!SaveOf(x, "title", v, y).value = v
          /\ \A w : I!SaveOf(x, "title", v, y) \in TitlesOf(w) <=> y /\ w = x
    /\ \A x \in Issue, v \in Status :
          /\ I!SaveOf(x, "status", v, TRUE) \in IssueCall \ ToldLoads
          /\ \A w : I!SaveOf(x, "status", v, TRUE) \notin TitlesOf(w)
    /\ \A x \in Issue :
          /\ [op |-> "delete", of |-> x, told |-> TRUE] \in IssueCall \ ToldLoads
          /\ \A w : [op |-> "delete", of |-> x, told |-> TRUE] \notin TitlesOf(w)
    /\ \A x \in Project, v \in Title :
          /\ [op |-> "create", of |-> x, title |-> v, told |-> TRUE] \in IssueCall \ ToldLoads
          /\ \A w : [op |-> "create", of |-> x, title |-> v, told |-> TRUE] \notin TitlesOf(w)
<1>1. <<>> \in Listings
  <2>1. <<>> \in [{} -> I!Content]
    OBVIOUS
  <2>2. QED
    BY <2>1 DEF Listings
<1>2. ASSUME NEW x \in Project, NEW y \in BOOLEAN
      PROVE  /\ I!LoadOf(x, y) \in ToldLoads /\ ToldLoads \subseteq IssueCall
             /\ I!LoadOf(x, y).of = x /\ I!LoadOf(x, y).silent = y /\ ~I!LoadOf(x, y).served
             /\ \A w : I!LoadOf(x, y) \notin TitlesOf(w)
  <2>1. I!LoadOf(x, y) \in IssueCall
    BY <1>1 DEF IssueCall, I!LoadOf
  <2>2. QED
    BY <2>1 DEF ToldLoads, TitlesOf, I!LoadOf
<1>3. ASSUME NEW x \in Issue, NEW v \in Title, NEW y \in BOOLEAN
      PROVE  /\ I!SaveOf(x, "title", v, y) \in IssueCall \ ToldLoads
             /\ I!SaveOf(x, "title", v, y).value = v
             /\ \A w : I!SaveOf(x, "title", v, y) \in TitlesOf(w) <=> y /\ w = x
  <2>1. I!SaveOf(x, "title", v, y) \in IssueCall
    BY DEF IssueCall, I!SaveOf
  <2>2. QED
    BY <2>1 DEF ToldLoads, TitlesOf, I!SaveOf
<1>4. ASSUME NEW x \in Issue, NEW v \in Status
      PROVE  /\ I!SaveOf(x, "status", v, TRUE) \in IssueCall \ ToldLoads
             /\ \A w : I!SaveOf(x, "status", v, TRUE) \notin TitlesOf(w)
  BY DEF IssueCall, ToldLoads, TitlesOf, I!SaveOf
<1>5. ASSUME NEW x \in Issue
      PROVE  /\ [op |-> "delete", of |-> x, told |-> TRUE] \in IssueCall \ ToldLoads
             /\ \A w : [op |-> "delete", of |-> x, told |-> TRUE] \notin TitlesOf(w)
  BY DEF IssueCall, ToldLoads, TitlesOf
<1>6. ASSUME NEW x \in Project, NEW v \in Title
      PROVE  /\ [op |-> "create", of |-> x, title |-> v, told |-> TRUE] \in IssueCall \ ToldLoads
             /\ \A w : [op |-> "create", of |-> x, title |-> v, told |-> TRUE] \notin TitlesOf(w)
  BY DEF IssueCall, ToldLoads, TitlesOf
<1>7. QED
  BY <1>2, <1>3, <1>4, <1>5, <1>6

\* The issues of a project, as a load brings them.
LEMMA ListingIs ==
    ASSUME IssueType, NEW x
    PROVE  I!Listing(x) \in Listings
<1>1. I!Existing(x) \in SUBSET Issue /\ \A w \in I!Existing(x) : tasks[w] \in I!Content
  BY DEF IssueType, I!Existing
<1>2. I!Listing(x) \in [I!Existing(x) -> I!Content]
  BY <1>1 DEF I!Listing
<1>3. QED
  BY <1>1, <1>2 DEF Listings

\* What is told to nobody is a request still.
LEMMA UntoldAre ==
    ASSUME NEW s \in Seq(IssueCall)
    PROVE  I!Untold(s) \in Seq(IssueCall) /\ I!AllUntold(s) \in Seq(IssueCall)
<1>1. /\ DOMAIN s = 1 .. Len(s) /\ Len(s) \in Nat
      /\ \A n \in 1 .. Len(s) : s[n] \in IssueCall
  OBVIOUS
<1>2. \A n \in 1 .. Len(s) : [s[n] EXCEPT !.told = FALSE] \in IssueCall
  BY <1>1, IssueCalls
<1>3. ASSUME NEW x \in [1 .. Len(s) -> IssueCall] PROVE x \in Seq(IssueCall)
  BY <1>1
<1>4. I!Untold(s) \in [1 .. Len(s) -> IssueCall]
  BY <1>1, <1>2 DEF I!Untold
<1>5. I!AllUntold(s) \in [1 .. Len(s) -> IssueCall]
  BY <1>1, <1>2 DEF I!AllUntold
<1>6. QED
  BY <1>3, <1>4, <1>5

\* The board asks again: it waits for that load.
LEMMA LoadAsks ==
    ASSUME IssueType, NEW s \in Seq(IssueCall), NEW x \in Project, NEW y \in BOOLEAN,
           I!Load(s, x, y), issue' \in Copied \cup {I!NoIssue}, y => issue' = issue
    PROVE  /\ loads' \in Seq(IssueCall) /\ loading' \in BOOLEAN /\ error' \in BOOLEAN
           /\ title' \in Title \cup {None} /\ typed' \in Title \cup {None}
           /\ timer' \in BOOLEAN /\ (timer' => issue' \in Copied)
           /\ left' \subseteq [id : Issue, title : Title \cup {None}] /\ form' \in FormType
           /\ ~NoneOf(loads', ToldLoads)
           /\ \A c : LastIn(loads', ToldLoads, c) => c.of = x /\ ~c.served
           /\ ~y => Noticed(loads') /\ typed' = None
           /\ y => /\ Held(s) \subseteq Held(loads') /\ loading' = loading
                   /\ title' = title /\ timer' = timer /\ typed' = typed
                   /\ \A w : /\ NoneOf(loads', TitlesOf(w)) => NoneOf(s, TitlesOf(w))
                             /\ \A c : LastIn(loads', TitlesOf(w), c) => LastIn(s, TitlesOf(w), c)
<1> DEFINE r == IF y THEN s ELSE I!Untold(s)
           w0 == I!LoadOf(x, y)
<1>1. x # None
  BY BoardsAssumption DEF I!IssueAssumption
<1>2. loads' = Append(r, w0)
  BY <1>1 DEF I!Load, I!Ask
<1>3. r \in Seq(IssueCall)
  BY UntoldAre
<1>4. /\ w0 \in ToldLoads /\ w0 \in IssueCall /\ w0.of = x /\ w0.silent = y /\ ~w0.served
      /\ \A w : w0 \notin TitlesOf(w)
  BY IssueAsks
<1>5. y => r = s
  OBVIOUS
<1> HIDE DEF r, w0
<1>6. /\ loads' \in Seq(IssueCall) /\ Held(loads') = Held(r) \cup {w0}
      /\ ~NoneOf(loads', ToldLoads) /\ \A c : LastIn(loads', ToldLoads, c) => c = w0
      /\ \A w : /\ NoneOf(loads', TitlesOf(w)) => NoneOf(r, TitlesOf(w))
                /\ \A c : LastIn(loads', TitlesOf(w), c) => LastIn(r, TitlesOf(w), c)
  BY <1>2, <1>3, <1>4, LastSent
<1>7. CASE y
  <2>1. UNCHANGED <<loading, error, title, timer, left, typed, form>>
    BY <1>1, <1>7 DEF I!Load
  <2>2. QED
    BY <1>4, <1>5, <1>6, <1>7, <2>1 DEF IssueType
<1>8. CASE ~y
  <2>1. loading' = TRUE /\ error' = FALSE /\ I!Renewed
    BY <1>1, <1>8 DEF I!Load
  <2>2. timer' = FALSE /\ typed' = None /\ form' = I!Blank
    BY <2>1 DEF I!Renewed
  <2>3. form' \in FormType
    BY <2>2 DEF I!Blank, FormType
  <2>4. title' \in Title \cup {None}
    BY <2>1 DEF I!Renewed, I!NoIssue, Copied
  <2>5. left' \subseteq [id : Issue, title : Title \cup {None}]
    BY <2>1 DEF I!Renewed, IssueType, Copied
  <2>6. Noticed(loads')
    BY <1>4, <1>6, <1>8 DEF Noticed
  <2>7. QED
    BY <1>4, <1>6, <1>8, <2>1, <2>2, <2>3, <2>4, <2>5, <2>6
<1>9. QED
  BY <1>7, <1>8

\* A load that is not silent: what the panel shows was not typed, and the columns are
\* what this load will bring.
LEMMA Reloads ==
    ASSUME IssueType, NEW s \in Seq(IssueCall), NEW x \in Project, I!Load(s, x, FALSE),
           project' = x, issue' \in Copied \cup {I!NoIssue}, mixed' \in BOOLEAN,
           tasks' \in [Issue -> I!Content \cup {None}], columns'.tasks \in Listings
    PROVE  IssueInv'
<1>1. x # None
  BY BoardsAssumption DEF I!IssueAssumption
<1>2. /\ loads' \in Seq(IssueCall) /\ loading' \in BOOLEAN /\ error' \in BOOLEAN
      /\ title' \in Title \cup {None} /\ typed' = None
      /\ timer' \in BOOLEAN /\ (timer' => issue' \in Copied)
      /\ left' \subseteq [id : Issue, title : Title \cup {None}] /\ form' \in FormType
      /\ ~NoneOf(loads', ToldLoads) /\ Noticed(loads')
      /\ \A c : LastIn(loads', ToldLoads, c) => c.of = x /\ ~c.served
  BY LoadAsks
<1>3. IssueType'
  BY <1>2 DEF IssueType
<1>4. ColumnsInv'
  BY <1>2 DEF ColumnsInv, Current
<1>5. NoProject' /\ TitleInv'
  BY <1>1, <1>2 DEF NoProject, TitleInv
<1>6. QED
  BY <1>3, <1>4, <1>5 DEF IssueInv

\* The project, the tab and the button that tries again.
LEMMA ProjectSteps ==
    ASSUME IssueInv, (\E x \in Project : I!SelectProject(x)) \/ I!SwitchTab \/ I!Retry
    PROVE  IssueInv'
<1>1. IssueType /\ NoProject /\ loads \in Seq(IssueCall)
  BY DEF IssueInv, IssueType
<1>2. I!AllUntold(loads) \in Seq(IssueCall)
  BY <1>1, UntoldAre
<1>3. /\ issue \in Copied \cup {I!NoIssue} /\ mixed \in BOOLEAN /\ columns.tasks \in Listings
      /\ tasks \in [Issue -> I!Content \cup {None}] /\ project \in Project \cup {None}
  BY <1>1 DEF IssueType
<1>4. <<>> \in Listings
  <2>1. <<>> \in [{} -> I!Content]
    OBVIOUS
  <2>2. QED
    BY <2>1 DEF Listings
<1>5. ASSUME NEW x \in Project, I!SelectProject(x) PROVE IssueInv'
  <2>1. /\ I!Load(loads, x, FALSE) /\ project' = x
        /\ UNCHANGED <<issue, mixed, tasks, columns>>
    BY <1>5 DEF I!SelectProject
  <2>2. QED
    BY <1>1, <1>3, <2>1, Reloads
<1>6. CASE I!SwitchTab
  <2>1. /\ project \in Project /\ I!Load(I!AllUntold(loads), project, FALSE)
        /\ project' = project /\ issue' = I!NoIssue /\ columns'.tasks = <<>>
        /\ UNCHANGED <<mixed, tasks>>
    BY <1>3, <1>6 DEF I!SwitchTab
  <2>2. QED
    BY <1>1, <1>2, <1>3, <1>4, <2>1, Reloads
<1>7. CASE I!Retry
  <2>1. /\ error /\ I!Load(loads, project, FALSE)
        /\ UNCHANGED <<project, issue, mixed, tasks, columns>>
    BY <1>7 DEF I!Retry
  <2>2. project \in Project
    BY <1>1, <1>3, <2>1 DEF NoProject
  <2>3. QED
    BY <1>1, <1>3, <2>1, <2>2, Reloads
<1>8. QED
  BY <1>5, <1>6, <1>7

\* The listing of a project is that of the issues the server has.
LEMMA ListingStays == tasks' = tasks => \A x : I!Listing(x)' = I!Listing(x)
  BY DEF I!Listing, I!Existing

\* The columns are as good as they were when no load is sent or ends.
LEMMA ColumnsStay ==
    ASSUME IssueType, ColumnsInv, UNCHANGED <<tasks, project, columns, loading>>, mixed => mixed',
           \/ loads' = loads
           \/ \E c \in IssueCall \ ToldLoads : loads' = Append(loads, c)
           \/ \E n \in DOMAIN loads : loads[n] \notin ToldLoads /\ loads' = Left(loads, n)
    PROVE  ColumnsInv' /\ loads' \in Seq(IssueCall)
<1>1. loads \in Seq(IssueCall)
  BY DEF IssueType
<1> DEFINE Same == /\ loads' \in Seq(IssueCall)
                   /\ NoneOf(loads', ToldLoads) => NoneOf(loads, ToldLoads)
                   /\ \A c : LastIn(loads', ToldLoads, c) => LastIn(loads, ToldLoads, c)
                   /\ Noticed(loads) => Noticed(loads')
<1>2. Same
  <2>1. CASE loads' = loads
    BY <1>1, <2>1
  <2>2. ASSUME NEW c \in IssueCall \ ToldLoads, loads' = Append(loads, c) PROVE Same
    <3>1. /\ loads' \in Seq(IssueCall) /\ Held(loads') = Held(loads) \cup {c}
          /\ NoneOf(loads', ToldLoads) => NoneOf(loads, ToldLoads)
          /\ \A l : LastIn(loads', ToldLoads, l) => LastIn(loads, ToldLoads, l)
      BY <1>1, <2>2, LastSent
    <3>2. QED
      BY <3>1 DEF Noticed
  <2>3. ASSUME NEW n \in DOMAIN loads, loads[n] \notin ToldLoads, loads' = Left(loads, n)
        PROVE  Same
    <3>1. /\ loads' \in Seq(IssueCall)
          /\ NoneOf(loads', ToldLoads) => NoneOf(loads, ToldLoads)
          /\ \A l : LastIn(loads', ToldLoads, l) => LastIn(loads, ToldLoads, l)
      BY <1>1, <2>3, LastAnswered
    <3>2. Held(loads) \ {loads[n]} \subseteq Held(loads')
      BY <1>1, <2>3, HeldLess
    <3>3. QED
      BY <2>3, <3>1, <3>2 DEF Noticed
  <2>4. QED
    BY <2>1, <2>2, <2>3
<1>3. I!Listing(project)' = I!Listing(project)
  BY DEF I!Listing, I!Existing
<1>4. ASSUME ~mixed', project' # None PROVE Current(loads)'
  <2>1. Current(loads)
    BY <1>4 DEF ColumnsInv
  <2>2. QED
    BY <1>2, <1>3, <2>1 DEF Current
<1>5. ~mixed' /\ loading' => Noticed(loads)'
  BY <1>2 DEF ColumnsInv
<1>6. QED
  BY <1>2, <1>4, <1>5 DEF ColumnsInv

\* So is what was typed when no save of a title is sent or ends.
LEMMA TypedStays ==
    ASSUME IssueType, TitleInv, mixed => mixed', issue' = issue, title' = title,
           typed' = typed, timer' = timer,
           \A w \in Issue : tasks[w] # None
                               => tasks'[w] # None /\ tasks'[w].title = tasks[w].title,
           \/ loads' = loads
           \/ \E c \in IssueCall : /\ \A w : c \notin TitlesOf(w)
                                   /\ loads' = Append(loads, c)
           \/ \E n \in DOMAIN loads : /\ \A w : loads[n] \notin TitlesOf(w)
                                      /\ loads' = Left(loads, n)
    PROVE  TitleInv'
<1>1. loads \in Seq(IssueCall) /\ issue \in Copied \cup {I!NoIssue}
  BY DEF IssueType
<1> DEFINE Same ==
        /\ \A w : NoneOf(loads', TitlesOf(w)) => NoneOf(loads, TitlesOf(w))
        /\ \A w, c : LastIn(loads', TitlesOf(w), c) => LastIn(loads, TitlesOf(w), c)
<1>2. Same
  <2>1. CASE loads' = loads
    BY <2>1
  <2>2. ASSUME NEW c \in IssueCall, \A w : c \notin TitlesOf(w), loads' = Append(loads, c)
        PROVE  Same
    BY <1>1, <2>2, LastSent
  <2>3. ASSUME NEW n \in DOMAIN loads, \A w : loads[n] \notin TitlesOf(w),
               loads' = Left(loads, n)
        PROVE  Same
    BY <1>1, <2>3, LastAnswered
  <2>4. QED
    BY <2>1, <2>2, <2>3
<1>3. ASSUME ~mixed', issue.id # None, typed # None, ~timer PROVE Brought(loads, issue.id, typed)'
  <2>1. Brought(loads, issue.id, typed)
    BY <1>3 DEF TitleInv
  <2>2. issue.id \in Issue
    BY <1>1, <1>3 DEF Copied, I!NoIssue
  <2>3. QED
    BY <1>2, <2>1, <2>2 DEF Brought
<1>4. QED
  BY <1>3 DEF TitleInv

\* The request that was answered is taken out.
LEMMA IssueRest == \A n : I!Rest(n) = Left(loads, n)
  BY DEF I!Rest, I!RemoveAt, Left

\* A load is served: the last one then holds what the server has.
LEMMA ServeKeeps ==
    ASSUME IssueInv, NEW n, I!ServeLoad(n)
    PROVE  IssueInv'
<1> DEFINE w0 == [loads[n] EXCEPT !.served = TRUE, !.got = I!Listing(loads[n].of)]
<1>1. /\ IssueType /\ loads \in Seq(IssueCall) /\ n \in DOMAIN loads /\ loads[n].op = "load"
      /\ loads' = [loads EXCEPT ![n].served = TRUE, ![n].got = I!Listing(loads[n].of)]
      /\ UNCHANGED <<tasks, project, columns, loading, error, issue, title, timer, left,
                     typings, typed, form, mixed>>
  BY DEF IssueInv, IssueType, I!ServeLoad, I!IsOp, I!panel
<1>2. loads[n] \in IssueCall
  BY <1>1
<1>3. loads[n] \in [op : {"load"}, of : Project, told : BOOLEAN, silent : BOOLEAN,
                    served : BOOLEAN, got : Listings]
  BY <1>1, <1>2 DEF IssueCall
<1>4. I!Listing(loads[n].of) \in Listings
  BY <1>1, ListingIs
<1>5. /\ w0 \in IssueCall /\ w0.op = "load" /\ w0.of = loads[n].of /\ w0.told = loads[n].told
      /\ w0.silent = loads[n].silent /\ w0.got = I!Listing(loads[n].of)
  BY <1>3, <1>4 DEF IssueCall
<1>6. loads' = [loads EXCEPT ![n] = w0]
  BY <1>1
<1> HIDE DEF w0
<1>7. /\ loads' \in Seq(IssueCall) /\ DOMAIN loads' = DOMAIN loads /\ loads'[n] = w0
      /\ \A m \in DOMAIN loads \ {n} : loads'[m] = loads[m]
  <2>1. /\ DOMAIN loads' = DOMAIN loads /\ loads'[n] = w0
        /\ \A m \in DOMAIN loads \ {n} : loads'[m] = loads[m]
    BY <1>1, <1>6
  <2>2. loads \in [1 .. Len(loads) -> IssueCall] /\ Len(loads) \in Nat
    BY <1>1
  <2>3. loads' \in [1 .. Len(loads) -> IssueCall]
    BY <1>5, <1>6, <2>2
  <2>4. loads' \in Seq(IssueCall)
    BY <2>2, <2>3
  <2>5. QED
    BY <2>1, <2>4
<1>8. IssueType'
  BY <1>1, <1>7 DEF IssueType
<1>9. \A x : \A m \in DOMAIN loads :
         /\ loads'[m] \in ToldLoads <=> loads[m] \in ToldLoads
         /\ loads'[m] \in TitlesOf(x) <=> loads[m] \in TitlesOf(x)
  BY <1>1, <1>2, <1>5, <1>7 DEF ToldLoads, TitlesOf
<1>10. I!Listing(project)' = I!Listing(project)
  BY <1>1 DEF I!Listing, I!Existing
<1>11. ColumnsInv'
  <2>1. Noticed(loads) => Noticed(loads')
    <3>1. \A m \in DOMAIN loads : loads'[m].silent = loads[m].silent
      BY <1>5, <1>7
    <3>2. QED
      BY <1>7, <1>9, <3>1 DEF Noticed, Held
  <2>2. NoneOf(loads', ToldLoads) => NoneOf(loads, ToldLoads)
    BY <1>7, <1>9 DEF NoneOf
  <2>3. ASSUME NEW c, LastIn(loads', ToldLoads, c)
        PROVE  \E y : LastIn(loads, ToldLoads, y) /\ c.of = y.of /\ (c = w0 \/ c = y)
    <3>1. PICK m \in DOMAIN loads : /\ loads'[m] = c /\ c \in ToldLoads
                                    /\ \A l \in DOMAIN loads : l > m => loads'[l] \notin ToldLoads
      BY <1>7, <2>3 DEF LastIn
    <3>2. LastIn(loads, ToldLoads, loads[m])
      BY <1>9, <3>1 DEF LastIn
    <3>3. QED
      BY <1>5, <1>7, <3>1, <3>2
  <2>4. ASSUME ~mixed, project # None PROVE Current(loads)'
    <3>1. Current(loads)
      BY <2>4 DEF IssueInv, ColumnsInv
    <3>2. ASSUME NEW c, LastIn(loads', ToldLoads, c)
          PROVE  c.of = project /\ (c.served => c.got = I!Listing(project))
      BY <1>5, <2>3, <3>1, <3>2 DEF Current
    <3>3. QED
      BY <1>1, <1>10, <2>2, <3>1, <3>2 DEF Current
  <2>5. QED
    BY <1>1, <2>1, <2>4 DEF IssueInv, ColumnsInv
<1>12. TitleInv'
  <2>1. \A x : NoneOf(loads', TitlesOf(x)) => NoneOf(loads, TitlesOf(x))
    BY <1>7, <1>9 DEF NoneOf
  <2>2. ASSUME NEW x, NEW c, LastIn(loads', TitlesOf(x), c)
        PROVE  LastIn(loads, TitlesOf(x), c)
    <3>1. PICK m \in DOMAIN loads : /\ loads'[m] = c /\ c \in TitlesOf(x)
                                    /\ \A l \in DOMAIN loads : l > m => loads'[l] \notin TitlesOf(x)
      BY <1>7, <2>2 DEF LastIn
    <3>2. w0 \notin TitlesOf(x)
      BY <1>5 DEF TitlesOf
    <3>3. m # n
      BY <1>7, <3>1, <3>2
    <3>4. QED
      BY <1>7, <1>9, <3>1, <3>3 DEF LastIn
  <2>3. QED
    BY <1>1, <2>1, <2>2 DEF IssueInv, TitleInv, Brought
<1>13. NoProject'
  <2>1. loads # <<>>
    BY <1>1
  <2>2. QED
    BY <1>1, <2>1 DEF IssueInv, NoProject
<1>14. QED
  BY <1>8, <1>11, <1>12, <1>13 DEF IssueInv

\* The answer to a load fills the columns, or does not come.
LEMMA LoadEnds ==
    ASSUME IssueInv, NEW n, I!Loaded(n) \/ I!LoadFails(n)
    PROVE  IssueInv'
<1>1. /\ IssueType /\ loads \in Seq(IssueCall) /\ n \in DOMAIN loads /\ loads[n].op = "load"
      /\ loads' = Left(loads, n)
      /\ UNCHANGED <<tasks, project, issue, title, timer, left, typings, typed, form>>
  BY IssueRest DEF IssueInv, IssueType, I!Loaded, I!LoadFails, I!IsOp, I!panel
<1>2. /\ loads[n] \in IssueCall /\ loads[n].told \in BOOLEAN /\ loads[n].silent \in BOOLEAN
      /\ loads[n].got \in Listings
  <2>1. loads[n] \in IssueCall
    BY <1>1
  <2>2. QED
    BY <1>1, <2>1, IssueCalls
<1>3. /\ loads[n] \in ToldLoads <=> loads[n].told
      /\ \A x : loads[n] \notin TitlesOf(x)
  BY <1>1, <1>2 DEF ToldLoads, TitlesOf
<1>4. loads' \in Seq(IssueCall)
  BY <1>1, LeftIs
<1>5. \/ /\ loads[n].told /\ I!Loaded(n)
         /\ columns' = [of |-> loads[n].of, tasks |-> loads[n].got]
         /\ loading' = (loading /\ loads[n].silent) /\ error' = error
         /\ mixed' = (mixed \/ \E m \in 1 .. n - 1 : I!IsOp(m, "load") /\ loads[m].told)
      \/ /\ loads[n].told /\ mixed' = TRUE /\ columns' = columns
         /\ loading' = (loading /\ loads[n].silent) /\ error' = (error \/ ~loads[n].silent)
      \/ ~loads[n].told /\ UNCHANGED <<columns, loading, error, mixed>>
  BY <1>2 DEF I!Loaded, I!LoadFails
<1>6. project # None
  <2>1. loads # <<>>
    BY <1>1
  <2>2. QED
    BY <2>1 DEF IssueInv, NoProject
<1>7. IssueType'
  <2>1. loading' \in BOOLEAN /\ error' \in BOOLEAN /\ mixed' \in BOOLEAN
    BY <1>1, <1>2, <1>5 DEF IssueType
  <2>2. columns'.tasks \in Listings
    <3>1. columns.tasks \in Listings
      BY <1>1 DEF IssueType
    <3>2. columns' = columns \/ columns'.tasks = loads[n].got
      BY <1>5
    <3>3. QED
      BY <1>2, <3>1, <3>2
  <2>3. QED
    BY <1>1, <1>4, <2>1, <2>2 DEF IssueType
<1>8. TitleInv'
  <2>1. mixed => mixed'
    BY <1>5
  <2>2. \A w \in Issue : tasks[w] # None => tasks'[w] # None /\ tasks'[w].title = tasks[w].title
    BY <1>1
  <2>3. TitleInv
    BY DEF IssueInv
  <2>4. QED
    BY <1>1, <1>3, <2>1, <2>2, <2>3, TypedStays
<1>9. ColumnsInv'
  <2>1. CASE ~loads[n].told
    BY <1>1, <1>3, <1>5, <2>1, ColumnsStay DEF IssueInv
  <2>2. CASE mixed'
    BY <2>2 DEF ColumnsInv
  <2>3. CASE loads[n].told /\ ~mixed'
    <3>1. /\ columns' = [of |-> loads[n].of, tasks |-> loads[n].got] /\ ~mixed
          /\ loading' = (loading /\ loads[n].silent) /\ I!Loaded(n)
          /\ \A m \in 1 .. n - 1 : ~(I!IsOp(m, "load") /\ loads[m].told)
      BY <1>5, <2>3
    <3>2. \A m \in DOMAIN loads : m < n => loads[m] \notin ToldLoads
      <4>1. \A m \in DOMAIN loads : m < n => m \in 1 .. n - 1
        BY <1>1
      <4>2. QED
        BY <3>1, <4>1 DEF I!IsOp, ToldLoads
    <3>3. /\ NoneOf(loads', ToldLoads) => LastIn(loads, ToldLoads, loads[n])
          /\ \A c : LastIn(loads', ToldLoads, c) => LastIn(loads, ToldLoads, c)
      BY <1>1, <1>3, <2>3, <3>2, LastAnswered
    <3>4. Current(loads) /\ (loading => Noticed(loads))
      BY <1>6, <3>1 DEF IssueInv, ColumnsInv
    <3>5. loading' => Noticed(loads')
      <4>1. Held(loads) \ {loads[n]} \subseteq Held(loads')
        BY <1>1, HeldLess
      <4>2. QED
        BY <3>1, <3>4, <4>1 DEF Noticed
    <3>6. Noticed(loads') => ~NoneOf(loads', ToldLoads)
      BY DEF Noticed, NoneOf, Held
    <3>7. I!Listing(project)' = I!Listing(project)
      BY <1>1 DEF I!Listing, I!Existing
    <3>8. loads[n].served
      BY <3>1 DEF I!Loaded
    <3>9. NoneOf(loads', ToldLoads) =>
             ~loading' /\ columns' = [of |-> project, tasks |-> I!Listing(project)]
      BY <3>1, <3>3, <3>4, <3>5, <3>6, <3>8 DEF Current
    <3>10. Current(loads)'
      BY <1>1, <3>3, <3>4, <3>7, <3>9 DEF Current
    <3>11. QED
      BY <3>5, <3>10 DEF ColumnsInv
  <2>4. QED
    BY <1>2, <2>1, <2>2, <2>3
<1>10. NoProject'
  BY <1>1, <1>6 DEF NoProject
<1>11. QED
  BY <1>7, <1>8, <1>9, <1>10 DEF IssueInv

\* What the panel shows when it is opened, closed or typed into, and the form.
LEMMA ScreenSteps ==
    ASSUME IssueInv,
           \/ \E x \in Issue : I!OpenIssue(x)
           \/ \E v \in Title \cup {None} : I!TypeTitle(v)
           \/ I!ClosePanel \/ I!OpenForm \/ I!FillForm \/ I!CloseForm
    PROVE  IssueInv'
<1>1. /\ IssueType /\ NoProject /\ ColumnsInv /\ TitleInv
      /\ UNCHANGED <<tasks, project, columns, loading, error, loads, mixed, left>>
      /\ columns.of # None
  BY DEF IssueInv, I!OpenIssue, I!TypeTitle, I!ClosePanel, I!OpenForm, I!FillForm, I!CloseForm,
         I!panel, I!network, I!Ready
<1>2. project # None
  BY <1>1 DEF NoProject
<1>3. NoProject' /\ ColumnsInv'
  BY <1>1, <1>2, ColumnsStay DEF NoProject
<1>4. ASSUME NEW x \in Issue, I!OpenIssue(x) PROVE IssueType' /\ TitleInv'
  <2>1. /\ x \in DOMAIN columns.tasks /\ form' = form /\ timer' = timer /\ typed' = None
        /\ issue' = [id |-> x, title |-> columns.tasks[x].title,
                     status |-> columns.tasks[x].status]
        /\ title' = columns.tasks[x].title
    BY <1>4 DEF I!OpenIssue
  <2>2. PICK y \in SUBSET Issue : columns.tasks \in [y -> I!Content]
    BY <1>1 DEF IssueType, Listings
  <2>3. columns.tasks[x] \in I!Content
    BY <2>1, <2>2
  <2>4. columns.tasks[x].title \in Title /\ columns.tasks[x].status \in Status
    BY <2>3 DEF I!Content
  <2>5. issue' \in Copied
    BY <2>1, <2>4 DEF Copied
  <2>6. IssueType'
    BY <1>1, <2>1, <2>4, <2>5 DEF IssueType
  <2>7. TitleInv'
    BY <2>1 DEF TitleInv
  <2>8. QED
    BY <2>6, <2>7
<1>5. ASSUME NEW v \in Title \cup {None}, I!TypeTitle(v) PROVE IssueType' /\ TitleInv'
  <2>1. /\ issue.id # None /\ title' = v /\ timer' = TRUE /\ typed' = v
        /\ form' = form /\ issue' = issue
    BY <1>5 DEF I!TypeTitle
  <2>2. issue \in Copied
    BY <1>1, <2>1 DEF IssueType, I!NoIssue
  <2>3. IssueType'
    BY <1>1, <2>1, <2>2 DEF IssueType
  <2>4. TitleInv'
    BY <2>1 DEF TitleInv
  <2>5. QED
    BY <2>3, <2>4
<1>6. CASE I!ClosePanel
  <2>1. issue' = I!NoIssue /\ title' = None /\ timer' = FALSE /\ typed' = None /\ form' = form
    BY <1>6 DEF I!ClosePanel
  <2>2. IssueType' /\ TitleInv'
    BY <1>1, <2>1 DEF IssueType, TitleInv
  <2>3. QED
    BY <1>3, <2>2 DEF IssueInv
<1>7. CASE I!OpenForm \/ I!FillForm \/ I!CloseForm
  <2>1. UNCHANGED <<issue, title, timer, typed>>
    BY <1>7 DEF I!OpenForm, I!FillForm, I!CloseForm, I!panel
  <2>2. [title |-> t, status |-> todo].title \in Title
    BY BoardsAssumption DEF I!IssueAssumption, I!Content
  <2>3. form \in FormType
    BY <1>1 DEF IssueType
  <2>4. form' \in FormType
    BY <1>7, <2>2, <2>3 DEF I!OpenForm, I!FillForm, I!CloseForm, FormType
  <2>5. IssueType'
    BY <1>1, <2>1, <2>4 DEF IssueType
  <2>6. TitleInv'
    BY <1>1, <2>1 DEF TitleInv, Brought
  <2>7. QED
    BY <1>3, <2>5, <2>6 DEF IssueInv
<1>8. QED
  BY <1>3, <1>4, <1>5, <1>6, <1>7 DEF IssueInv

\* A timer, a click on a status, the delete button and the form send a request.
LEMMA SendSteps ==
    ASSUME IssueInv,
           \/ I!TitleTimer \/ I!DeleteIssue \/ I!Submit
           \/ \E v \in left : I!LeftTimer(v)
           \/ \E v \in Status : I!PickStatus(v)
    PROVE  IssueInv'
<1>1. /\ IssueType /\ NoProject /\ ColumnsInv /\ TitleInv /\ loads \in Seq(IssueCall)
      /\ issue \in Copied \cup {I!NoIssue} /\ project \in Project \cup {None}
      /\ UNCHANGED <<tasks, project, columns, loading, error, mixed, issue, title, typed>>
  BY DEF IssueInv, IssueType, I!TitleTimer, I!DeleteIssue, I!Submit, I!LeftTimer, I!PickStatus,
         I!panel
<1>2. issue # I!NoIssue => issue \in Copied /\ issue.id \in Issue
  BY <1>1 DEF Copied
<1>3. /\ timer => issue \in Copied
      /\ issue \in Copied => project # None
  <2>1. None \notin Issue
    BY BoardsAssumption DEF I!IssueAssumption
  <2>2. QED
    BY <1>1, <2>1 DEF IssueType, NoProject, Copied, I!NoIssue
<1>4. ASSUME NEW c \in IssueCall \ ToldLoads, I!Ask(loads, c)
      PROVE  ColumnsInv' /\ loads' \in Seq(IssueCall) /\ loads' = Append(loads, c)
  <2>1. loads' = Append(loads, c)
    BY <1>4 DEF I!Ask
  <2>2. QED
    BY <1>1, <2>1, ColumnsStay
<1>5. CASE I!TitleTimer
  <2>1. /\ timer /\ timer' = FALSE /\ UNCHANGED <<left, form>> /\ issue.id \in Issue
        /\ project # None
    BY <1>3, <1>5 DEF I!TitleTimer, Copied
  <2>2. CASE title = None
    <3>1. loads' = loads
      BY <1>5, <2>2 DEF I!TitleTimer, I!network
    <3>2. IssueType'
      BY <1>1, <2>1, <3>1 DEF IssueType
    <3>3. ColumnsInv'
      BY <1>1, <3>1, ColumnsStay
    <3>4. TitleInv' /\ NoProject'
      BY <1>1, <2>1, <2>2, <3>1 DEF TitleInv, NoProject
    <3>5. QED
      BY <3>2, <3>3, <3>4 DEF IssueInv
  <2>3. CASE title # None
    <3> DEFINE c == I!SaveOf(issue.id, "title", title, TRUE)
    <3>1. I!Ask(loads, c)
      BY <1>5, <2>3 DEF I!TitleTimer
    <3>2. title \in Title
      BY <1>1, <2>3 DEF IssueType
    <3>3. c \in IssueCall \ ToldLoads /\ c.value = title /\ c \in TitlesOf(issue.id)
      BY <2>1, <3>2, IssueAsks
    <3> HIDE DEF c
    <3>4. ColumnsInv' /\ loads' \in Seq(IssueCall) /\ loads' = Append(loads, c)
      BY <1>4, <3>1, <3>3
    <3>5. IssueType'
      BY <1>1, <2>1, <3>4 DEF IssueType
    <3>6. /\ ~NoneOf(loads', TitlesOf(issue.id))
          /\ \A v : LastIn(loads', TitlesOf(issue.id), v) => v = c
      BY <1>1, <3>3, <3>4, LastSent
    <3>7. TitleInv'
      BY <1>1, <2>1, <3>3, <3>6 DEF TitleInv, Brought
    <3>8. NoProject'
      BY <1>1, <2>1 DEF NoProject
    <3>9. QED
      BY <3>4, <3>5, <3>7, <3>8 DEF IssueInv
  <2>4. QED
    BY <2>2, <2>3
<1>6. ASSUME NEW v \in left, I!LeftTimer(v) PROVE IssueInv'
  <2>1. left' = left \ {v} /\ UNCHANGED <<timer, form>> /\ v.id \in Issue
    BY <1>1, <1>6 DEF I!LeftTimer, IssueType
  <2>4. project # None
    BY <1>1, <1>6 DEF NoProject
  <2>2. CASE v.title = None
    <3>1. loads' = loads
      BY <1>6, <2>2 DEF I!LeftTimer, I!network
    <3>2. IssueType'
      BY <1>1, <2>1, <3>1 DEF IssueType
    <3>3. ColumnsInv'
      BY <1>1, <3>1, ColumnsStay
    <3>4. TitleInv' /\ NoProject'
      BY <1>1, <2>1, <2>4, <3>1 DEF TitleInv, Brought, NoProject
    <3>5. QED
      BY <3>2, <3>3, <3>4 DEF IssueInv
  <2>3. CASE v.title # None
    <3> DEFINE c == I!SaveOf(v.id, "title", v.title, FALSE)
    <3>1. I!Ask(loads, c) /\ v.title \in Title
      BY <1>1, <1>6, <2>3 DEF I!LeftTimer, IssueType
    <3>2. c \in IssueCall \ ToldLoads /\ \A w : c \notin TitlesOf(w)
      BY <2>1, <3>1, IssueAsks
    <3> HIDE DEF c
    <3>3. ColumnsInv' /\ loads' \in Seq(IssueCall) /\ loads' = Append(loads, c)
      BY <1>4, <3>1, <3>2
    <3>4. IssueType'
      BY <1>1, <2>1, <3>3 DEF IssueType
    <3>5. TitleInv'
      BY <1>1, <2>1, <3>2, <3>3, TypedStays
    <3>6. NoProject'
      BY <1>1, <2>4 DEF NoProject
    <3>7. QED
      BY <3>3, <3>4, <3>5, <3>6 DEF IssueInv
  <2>5. QED
    BY <2>2, <2>3
<1>7. ASSUME NEW c \in IssueCall \ ToldLoads, \A w : c \notin TitlesOf(w), I!Ask(loads, c),
             UNCHANGED <<timer, left>>, form' \in FormType, project # None
      PROVE  IssueInv'
  <2>1. ColumnsInv' /\ loads' \in Seq(IssueCall) /\ loads' = Append(loads, c)
    BY <1>4, <1>7
  <2>2. IssueType'
    BY <1>1, <1>7, <2>1 DEF IssueType
  <2>3. TitleInv'
    BY <1>1, <1>7, <2>1, TypedStays
  <2>4. NoProject'
    BY <1>1, <1>7 DEF NoProject
  <2>5. QED
    BY <2>1, <2>2, <2>3, <2>4 DEF IssueInv
<1>8. form \in FormType
  BY <1>1 DEF IssueType
<1>9. ASSUME NEW v \in Status, I!PickStatus(v) PROVE IssueInv'
  <2> DEFINE c == I!SaveOf(issue.id, "status", v, TRUE)
  <2>0. I!Ask(loads, c) /\ issue.id # None
    BY <1>9 DEF I!PickStatus
  <2>1. /\ I!Ask(loads, c) /\ UNCHANGED <<timer, left, form>>
        /\ issue.id \in Issue /\ project # None
    <3>1. UNCHANGED <<timer, left, form>>
      BY <1>9 DEF I!PickStatus, I!panel
    <3>2. issue \in Copied /\ issue.id \in Issue /\ project # None
      BY <1>2, <1>3, <2>0 DEF I!NoIssue
    <3>3. QED
      BY <2>0, <3>1, <3>2
  <2>2. c \in IssueCall \ ToldLoads /\ \A w : c \notin TitlesOf(w)
    BY <2>1, IssueAsks
  <2> HIDE DEF c
  <2>3. QED
    BY <1>7, <1>8, <2>1, <2>2
<1>10. CASE I!DeleteIssue
  <2> DEFINE c == [op |-> "delete", of |-> issue.id, told |-> TRUE]
  <2>1. /\ I!Ask(loads, c) /\ UNCHANGED <<timer, left, form>>
        /\ issue.id \in Issue /\ project # None
    BY <1>2, <1>3, <1>10 DEF I!DeleteIssue, I!panel, I!NoIssue
  <2>2. c \in IssueCall \ ToldLoads /\ \A w : c \notin TitlesOf(w)
    BY <2>1, IssueAsks
  <2> HIDE DEF c
  <2>3. QED
    BY <1>7, <1>8, <2>1, <2>2
<1>11. CASE I!Submit
  <2> DEFINE c == [op |-> "create", of |-> project, title |-> form.title, told |-> TRUE]
  <2>1. /\ I!Ask(loads, c) /\ UNCHANGED <<timer, left>> /\ form.title # None
        /\ form' = [form EXCEPT !.submitting = TRUE] /\ columns.of # None
    BY <1>11 DEF I!Submit, I!panel, I!Ready
  <2>2. form.title \in Title /\ form' \in FormType /\ project \in Project /\ project # None
    BY <1>1, <1>8, <2>1 DEF FormType, NoProject
  <2>3. c \in IssueCall \ ToldLoads /\ \A w : c \notin TitlesOf(w)
    BY <2>2, IssueAsks
  <2> HIDE DEF c
  <2>4. QED
    BY <1>7, <2>1, <2>2, <2>3
<1>12. QED
  BY <1>5, <1>6, <1>9, <1>10, <1>11

\* What was typed is brought by the save that was answered, or by one after it.
LEMMA SavedBrings ==
    ASSUME IssueType, NEW n \in DOMAIN loads, NEW x \in Issue, NEW v, Brought(loads, x, v),
           loads[n].op = "save", loads[n].told,
           \A m \in DOMAIN loads : m < n => loads[m].op # "save",
           tasks[loads[n].of] # None,
           tasks' = [tasks EXCEPT ![loads[n].of] =
                        IF loads[n].field = "title" THEN [@ EXCEPT !.title = loads[n].value]
                                                    ELSE [@ EXCEPT !.status = loads[n].value]],
           NoneOf(loads', TitlesOf(x)) => NoneOf(Left(loads, n), TitlesOf(x)),
           \A c : LastIn(loads', TitlesOf(x), c) => LastIn(Left(loads, n), TitlesOf(x), c)
    PROVE  /\ NoneOf(loads', TitlesOf(x)) => tasks'[x] # None /\ tasks'[x].title = v
           /\ \A c : LastIn(loads', TitlesOf(x), c) => c.value = v
<1> DEFINE y == loads[n]
<1>1. /\ loads \in Seq(IssueCall) /\ tasks \in [Issue -> I!Content \cup {None}]
      /\ None \notin I!Content
  BY BoardsAssumption DEF IssueType, I!IssueAssumption
<1>2. y \in IssueCall
  BY <1>1
<1>3. y.of \in Issue /\ (y.field = "title" \/ y.field = "status")
  BY <1>2, IssueCalls
<1>4. y \in TitlesOf(x) <=> y.field = "title" /\ y.of = x
  BY <1>2 DEF TitlesOf
<1>5. \A m \in DOMAIN loads : m < n => loads[m] \notin TitlesOf(x)
  BY DEF TitlesOf
<1>6. /\ y \notin TitlesOf(x) /\ NoneOf(Left(loads, n), TitlesOf(x)) => NoneOf(loads, TitlesOf(x))
      /\ y \in TitlesOf(x) /\ NoneOf(Left(loads, n), TitlesOf(x)) => LastIn(loads, TitlesOf(x), y)
      /\ \A c : LastIn(Left(loads, n), TitlesOf(x), c) => LastIn(loads, TitlesOf(x), c)
  BY <1>1, <1>5, LastAnswered
<1>7. ASSUME NoneOf(loads', TitlesOf(x)) PROVE tasks'[x] # None /\ tasks'[x].title = v
  <2>1. CASE y \in TitlesOf(x)
    <3>1. y.value = v /\ y.of = x /\ y.field = "title"
      BY <1>4, <1>6, <1>7, <2>1 DEF Brought
    <3>2. tasks[x] \in I!Content /\ tasks'[x] = [tasks[x] EXCEPT !.title = v]
      BY <1>1, <3>1
    <3>3. tasks'[x].title = v /\ tasks'[x] \in [title : {v}, status : Status]
      BY <3>2 DEF I!Content
    <3>4. y.value \in Title
      BY <1>2, <3>1, IssueCalls
    <3>5. tasks'[x] \in I!Content
      BY <3>1, <3>3, <3>4 DEF I!Content
    <3>6. QED
      BY <1>1, <3>3, <3>5
  <2>2. CASE y \notin TitlesOf(x)
    <3>1. tasks[x] # None /\ tasks[x].title = v
      BY <1>6, <1>7, <2>2 DEF Brought
    <3>2. CASE y.of # x
      BY <1>1, <1>3, <3>1, <3>2
    <3>3. CASE y.of = x
      <4>1. y.field = "status" /\ y.field # "title"
        BY <1>3, <1>4, <2>2, <3>3
      <4>2. tasks[x] \in I!Content /\ tasks'[x] = [tasks[x] EXCEPT !.status = y.value]
        BY <1>1, <3>1, <3>3, <4>1
      <4>3. y.value \in Status
        BY <1>2, <4>1, IssueCalls
      <4>4. tasks'[x] \in I!Content /\ tasks'[x].title = tasks[x].title
        BY <4>2, <4>3 DEF I!Content
      <4>5. QED
        BY <1>1, <3>1, <4>4
    <3>4. QED
      BY <3>2, <3>3
  <2>3. QED
    BY <2>1, <2>2
<1>8. \A c : LastIn(loads', TitlesOf(x), c) => c.value = v
  BY <1>6 DEF Brought
<1>9. QED
  BY <1>7, <1>8

\* The issue that was changed, deleted or made is as the server has it.
LEMMA TasksAre ==
    ASSUME IssueType, NEW n,
           \/ I!Saved(n)
           \/ \E y \in BOOLEAN : I!Deleted(n, y)
           \/ \E x \in Fresh : I!Created(n, x)
    PROVE  tasks' \in [Issue -> I!Content \cup {None}]
<1>1. /\ loads \in Seq(IssueCall) /\ tasks \in [Issue -> I!Content \cup {None}]
      /\ n \in DOMAIN loads
  BY DEF IssueType, I!Saved, I!Deleted, I!Created, I!IsOp
<1>2. loads[n] \in IssueCall
  BY <1>1
<1>3. CASE I!Saved(n)
  <2>1. /\ loads[n].op = "save" /\ tasks[loads[n].of] # None
        /\ tasks' = [tasks EXCEPT ![loads[n].of] =
                        IF loads[n].field = "title" THEN [@ EXCEPT !.title = loads[n].value]
                                                    ELSE [@ EXCEPT !.status = loads[n].value]]
    BY <1>3 DEF I!Saved, I!IsOp
  <2>2. /\ loads[n].of \in Issue
        /\ loads[n].field = "title" => loads[n].value \in Title
        /\ loads[n].field # "title" => loads[n].value \in Status
    BY <1>2, <2>1, IssueCalls
  <2>3. tasks[loads[n].of] \in I!Content
    BY <1>1, <2>1, <2>2
  <2>4. /\ loads[n].field = "title"
              => [tasks[loads[n].of] EXCEPT !.title = loads[n].value] \in I!Content
        /\ loads[n].field # "title"
              => [tasks[loads[n].of] EXCEPT !.status = loads[n].value] \in I!Content
    BY <2>2, <2>3 DEF I!Content
  <2>5. QED
    BY <1>1, <2>1, <2>2, <2>4
<1>4. ASSUME NEW y \in BOOLEAN, I!Deleted(n, y) PROVE tasks' \in [Issue -> I!Content \cup {None}]
  BY <1>1, <1>4 DEF I!Deleted
<1>5. ASSUME NEW x \in Fresh, I!Created(n, x) PROVE tasks' \in [Issue -> I!Content \cup {None}]
  <2> DEFINE w0 == [[title |-> t, status |-> todo] EXCEPT !.title = loads[n].title]
  <2>1. loads[n].op = "create" /\ tasks' = [tasks EXCEPT ![x] = w0]
    BY <1>5 DEF I!Created, I!IsOp
  <2>2. loads[n].title \in Title
    BY <1>2, <2>1, IssueCalls
  <2>3. todo \in Status
    BY BoardsAssumption DEF I!IssueAssumption, I!Content
  <2>4. w0 \in I!Content
    BY <2>2, <2>3 DEF I!Content
  <2> HIDE DEF w0
  <2>5. QED
    BY <1>1, <2>1, <2>4
<1>6. QED
  BY <1>3, <1>4, <1>5

\* An answer that is told to nobody.
LEMMA NobodyTold ==
    ASSUME IssueInv, NEW n \in DOMAIN loads, loads' = Left(loads, n), mixed' = TRUE,
           UNCHANGED <<project, columns, loading, error, issue, title, timer, left, typed>>,
           form' \in FormType, tasks' \in [Issue -> I!Content \cup {None}]
    PROVE  IssueInv'
<1>1. IssueType /\ loads \in Seq(IssueCall) /\ project # None
  <2>1. IssueType /\ loads \in Seq(IssueCall)
    BY DEF IssueInv, IssueType
  <2>2. loads # <<>>
    BY <2>1
  <2>3. QED
    BY <2>1, <2>2 DEF IssueInv, NoProject
<1>2. loads' \in Seq(IssueCall)
  BY <1>1, LeftIs
<1>3. IssueType'
  BY <1>1, <1>2 DEF IssueType
<1>4. NoProject' /\ ColumnsInv' /\ TitleInv'
  BY <1>1 DEF NoProject, ColumnsInv, TitleInv
<1>5. QED
  BY <1>3, <1>4 DEF IssueInv

\* The answers to what the panel and the form asked.
LEMMA AnswersCome ==
    ASSUME IssueInv, NEW n,
           \/ I!Saved(n) \/ I!CallFails(n)
           \/ \E y \in BOOLEAN : I!Deleted(n, y)
           \/ \E x \in Fresh : I!Created(n, x)
    PROVE  IssueInv'
<1>1. /\ IssueType /\ NoProject /\ ColumnsInv /\ TitleInv /\ loads \in Seq(IssueCall)
      /\ n \in DOMAIN loads /\ UNCHANGED <<project, columns>>
      /\ form \in FormType /\ mixed \in BOOLEAN /\ columns.tasks \in Listings
      /\ issue \in Copied \cup {I!NoIssue} /\ tasks \in [Issue -> I!Content \cup {None}]
  BY DEF IssueInv, IssueType, I!Saved, I!CallFails, I!Deleted, I!Created, I!IsOp
<1>2. loads[n] \in IssueCall
  BY <1>1
<1>3. loads[n].told \in BOOLEAN
  BY <1>2, IssueCalls
<1>4. Left(loads, n) \in Seq(IssueCall) /\ I!Rest(n) = Left(loads, n)
  BY <1>1, LeftIs, IssueRest
<1>5. project \in Project
  <2>1. loads # <<>>
    BY <1>1
  <2>2. QED
    BY <1>1, <2>1 DEF NoProject, IssueType
<1>6. CASE I!CallFails(n)
  <2>1. /\ loads' = Left(loads, n) /\ mixed' = TRUE
        /\ UNCHANGED <<tasks, project, columns, loading, error, issue, title, timer, left, typed>>
        /\ form' = (IF loads[n].op = "create" /\ loads[n].told
                    THEN [form EXCEPT !.submitting = FALSE] ELSE form)
    BY <1>4, <1>6 DEF I!CallFails, I!panel
  <2>2. form' \in FormType
    BY <1>1, <2>1 DEF FormType
  <2>3. tasks' \in [Issue -> I!Content \cup {None}]
    BY <1>1, <2>1
  <2>4. QED
    BY <1>1, <2>1, <2>2, <2>3, NobodyTold
<1>7. ASSUME NEW y \in BOOLEAN, I!Deleted(n, y) PROVE IssueInv'
  <2>1. tasks' \in [Issue -> I!Content \cup {None}]
    BY <1>1, <1>7, TasksAre
  <2>2. CASE loads[n].told
    <3>1. /\ issue' = I!NoIssue /\ I!Load(Left(loads, n), project, FALSE)
          /\ mixed' = (mixed \/ ~loads[n].told) /\ project' = project /\ columns' = columns
      BY <1>4, <1>7, <2>2 DEF I!Deleted
    <3>2. QED
      BY <1>1, <1>4, <1>5, <2>1, <3>1, Reloads
  <2>3. CASE ~loads[n].told
    <3>1. /\ loads' = Left(loads, n) /\ mixed' = TRUE
          /\ UNCHANGED <<project, columns, loading, error, issue, title, timer, left, typed, form>>
      BY <1>4, <1>7, <2>3 DEF I!Deleted
    <3>2. QED
      BY <1>1, <2>1, <3>1, NobodyTold
  <2>4. QED
    BY <1>3, <2>2, <2>3
<1>8. ASSUME NEW x \in Fresh, I!Created(n, x) PROVE IssueInv'
  <2>1. tasks' \in [Issue -> I!Content \cup {None}]
    BY <1>1, <1>8, TasksAre
  <2>2. CASE loads[n].told
    <3>1. /\ issue' = issue /\ I!Load(Left(loads, n), project, FALSE)
          /\ mixed' = (mixed \/ ~loads[n].told) /\ project' = project /\ columns' = columns
      BY <1>4, <1>8, <2>2 DEF I!Created
    <3>2. QED
      BY <1>1, <1>4, <1>5, <2>1, <3>1, Reloads
  <2>3. CASE ~loads[n].told
    <3>1. /\ loads' = Left(loads, n) /\ mixed' = TRUE
          /\ UNCHANGED <<project, columns, loading, error, issue, title, timer, left, typed, form>>
      BY <1>4, <1>8, <2>3 DEF I!Created
    <3>2. QED
      BY <1>1, <2>1, <3>1, NobodyTold
  <2>4. QED
    BY <1>3, <2>2, <2>3
<1>9. CASE I!Saved(n)
  <2>1. tasks' \in [Issue -> I!Content \cup {None}]
    BY <1>1, <1>9, TasksAre
  <2>2. /\ loads[n].op = "save" /\ tasks[loads[n].of] # None /\ issue' = issue
        /\ tasks' = [tasks EXCEPT ![loads[n].of] =
                        IF loads[n].field = "title" THEN [@ EXCEPT !.title = loads[n].value]
                                                    ELSE [@ EXCEPT !.status = loads[n].value]]
        /\ I!IssueUpdated(Left(loads, n), loads[n].told, loads[n].of)
        /\ mixed' = (mixed \/ ~loads[n].told \/ \E m \in 1 .. n - 1 : loads[m].op = "save")
    BY <1>4, <1>9 DEF I!Saved, I!IsOp, I!IssueUpdated
  <2>3. CASE ~loads[n].told
    <3>1. /\ loads' = Left(loads, n) /\ mixed' = TRUE
          /\ UNCHANGED <<loading, error, title, timer, left, typed, form>>
      BY <2>2, <2>3 DEF I!IssueUpdated
    <3>2. QED
      BY <1>1, <2>1, <2>2, <3>1, NobodyTold
  <2>4. CASE loads[n].told
    <3>1. I!Load(Left(loads, n), project, TRUE)
      BY <2>2, <2>4 DEF I!IssueUpdated
    <3>2. /\ loads' \in Seq(IssueCall) /\ loading' \in BOOLEAN /\ error' \in BOOLEAN
          /\ title' \in Title \cup {None} /\ typed' \in Title \cup {None}
          /\ timer' \in BOOLEAN /\ (timer' => issue' \in Copied)
          /\ left' \subseteq [id : Issue, title : Title \cup {None}] /\ form' \in FormType
      BY <1>1, <1>4, <1>5, <2>2, <3>1, LoadAsks
    <3>3. /\ ~NoneOf(loads', ToldLoads)
          /\ \A c : LastIn(loads', ToldLoads, c) => c.of = project /\ ~c.served
          /\ Held(Left(loads, n)) \subseteq Held(loads') /\ loading' = loading
          /\ title' = title /\ timer' = timer /\ typed' = typed
      BY <1>1, <1>4, <1>5, <2>2, <3>1, LoadAsks
    <3>4. \A w : /\ NoneOf(loads', TitlesOf(w)) => NoneOf(Left(loads, n), TitlesOf(w))
                 /\ \A c : LastIn(loads', TitlesOf(w), c) => LastIn(Left(loads, n), TitlesOf(w), c)
      BY <1>1, <1>4, <1>5, <2>2, <3>1, LoadAsks
    <3>5. mixed' \in BOOLEAN /\ (mixed => mixed')
      BY <1>1, <1>3, <2>2
    <3>6. IssueType'
      BY <1>1, <2>1, <2>2, <3>2, <3>5 DEF IssueType
    <3>7. ColumnsInv'
      <4>1. Held(loads) \ {loads[n]} \subseteq Held(loads')
        BY <1>1, <3>3, HeldLess
      <4>2. loads[n] \notin ToldLoads
        BY <2>2 DEF ToldLoads
      <4>3. Noticed(loads) => Noticed(loads')
        BY <4>1, <4>2 DEF Noticed
      <4>4. QED
        BY <1>1, <3>3, <3>5, <4>3 DEF ColumnsInv, Current
    <3>8. TitleInv'
      <4> SUFFICES ASSUME ~mixed', issue.id # None, typed # None
                   PROVE  title = typed /\ (timer \/ Brought(loads, issue.id, typed)')
        BY <2>2, <3>3 DEF TitleInv
      <4>1. title = typed /\ (timer \/ Brought(loads, issue.id, typed))
        BY <1>1, <3>5 DEF TitleInv
      <4>2. \A m \in DOMAIN loads : m < n => loads[m].op # "save"
        <5>1. \A m \in DOMAIN loads : m < n => m \in 1 .. n - 1
          BY <1>1
        <5>2. QED
          BY <2>2, <5>1
      <4>3. issue.id \in Issue
        BY <1>1 DEF Copied, I!NoIssue
      <4>4. ASSUME ~timer PROVE Brought(loads, issue.id, typed)'
        <5>1. Brought(loads, issue.id, typed)
          BY <4>1, <4>4
        <5>2. /\ NoneOf(loads', TitlesOf(issue.id))
                    => tasks'[issue.id] # None /\ tasks'[issue.id].title = typed
              /\ \A c : LastIn(loads', TitlesOf(issue.id), c) => c.value = typed
          BY <1>1, <2>2, <2>4, <3>4, <4>2, <4>3, <5>1, SavedBrings
        <5>3. QED
          BY <2>2, <3>3, <5>2 DEF Brought
      <4>5. QED
        BY <4>1, <4>4
    <3>9. NoProject'
      BY <1>1, <1>5, BoardsAssumption DEF NoProject, I!IssueAssumption
    <3>10. QED
      BY <3>6, <3>7, <3>8, <3>9 DEF IssueInv
  <2>5. QED
    BY <1>3, <2>3, <2>4
<1>10. QED
  BY <1>6, <1>7, <1>8, <1>9

\* No step of the issues breaks the invariant.
LEMMA NextIssue == IssueInv /\ [I!IssueNext]_(I!issueVars) => IssueInv'
<1> SUFFICES ASSUME IssueInv, [I!IssueNext]_(I!issueVars) PROVE IssueInv'
  OBVIOUS
<1>1. CASE UNCHANGED I!issueVars
  <2>1. UNCHANGED <<tasks, project, columns, loading, error, issue, title, timer, left, form,
                    loads, typed, mixed>>
    BY <1>1 DEF I!issueVars, I!panel, I!network
  <2>2. IssueType' /\ NoProject'
    BY <2>1 DEF IssueInv, IssueType, NoProject
  <2>3. ColumnsInv' /\ TitleInv'
    <3>1. IssueType /\ ColumnsInv /\ TitleInv
      BY DEF IssueInv
    <3>2. QED
      BY <2>1, <3>1, ColumnsStay DEF TitleInv, Brought
  <2>4. QED
    BY <2>2, <2>3 DEF IssueInv
<1>2. CASE \/ \E x \in Project : I!SelectProject(x)
           \/ I!SwitchTab \/ I!Retry
  BY <1>2, ProjectSteps
<1>3. CASE \/ \E x \in Issue : I!OpenIssue(x)
           \/ \E v \in Title \cup {None} : I!TypeTitle(v)
           \/ I!ClosePanel \/ I!OpenForm \/ I!FillForm \/ I!CloseForm
  BY <1>3, ScreenSteps
<1>4. CASE \/ I!TitleTimer \/ I!DeleteIssue \/ I!Submit
           \/ \E v \in left : I!LeftTimer(v)
           \/ \E v \in Status : I!PickStatus(v)
  BY <1>4, SendSteps
<1>5. ASSUME NEW n \in 1 .. MaxIssueCalls,
             \/ I!ServeLoad(n) \/ I!Loaded(n) \/ I!LoadFails(n) \/ I!Saved(n) \/ I!CallFails(n)
             \/ \E y \in BOOLEAN : I!Deleted(n, y)
             \/ \E x \in Fresh : I!Created(n, x)
      PROVE  IssueInv'
  BY <1>5, ServeKeeps, LoadEnds, AnswersCome
<1>6. QED
  BY <1>1, <1>2, <1>3, <1>4, <1>5 DEF I!IssueNext

\* There are issues on the server, and nothing on the phone.
LEMMA InitIssue == I!IssueAssumption /\ I!IssueInit => IssueInv
<1> SUFFICES ASSUME I!IssueAssumption, I!IssueInit PROVE IssueInv
  OBVIOUS
<1>1. [title |-> t, status |-> todo] \in I!Content
  BY DEF I!IssueAssumption
<1>2. <<>> \in Listings
  <2>1. <<>> \in [{} -> I!Content]
    OBVIOUS
  <2>2. QED
    BY <2>1 DEF Listings
<1>3. IssueType
  <2>1. tasks \in [Issue -> I!Content \cup {None}]
    BY <1>1 DEF I!IssueInit
  <2>2. form \in FormType
    BY DEF I!IssueInit, I!Blank, FormType
  <2>3. loads = <<>> /\ loads \in Seq(IssueCall)
    BY DEF I!IssueInit
  <2>4. /\ project = None /\ columns.tasks = <<>> /\ loading = FALSE /\ error = FALSE
        /\ mixed = FALSE /\ issue = I!NoIssue /\ title = None /\ typed = None
        /\ timer = FALSE /\ left = {}
    BY DEF I!IssueInit
  <2>5. QED
    BY <1>2, <2>1, <2>2, <2>3, <2>4 DEF IssueType
<1>4. NoProject /\ ColumnsInv /\ TitleInv
  BY DEF I!IssueInit, NoProject, ColumnsInv, TitleInv
<1>5. QED
  BY <1>3, <1>4 DEF IssueInv

\* When nothing is under way nothing is left to be brought.
LEMMA IssueShows == IssueInv => BoardIsCurrent /\ TypedIsStored
<1> SUFFICES ASSUME IssueInv PROVE BoardIsCurrent /\ TypedIsStored
  OBVIOUS
<1>1. I!AtRest => NoneOf(loads, ToldLoads) /\ \A x : NoneOf(loads, TitlesOf(x))
  BY DEF I!AtRest, NoneOf, ToldLoads, TitlesOf
<1>2. BoardIsCurrent
  BY <1>1 DEF IssueInv, ColumnsInv, Current, BoardIsCurrent, I!BoardIsCurrent
<1>3. TypedIsStored
  BY <1>1 DEF IssueInv, TitleInv, Brought, TypedIsStored, I!TypedIsStored
<1>4. QED
  BY <1>2, <1>3

\* When no answer failed, was overtaken or came to an element that was made anew, the
\* columns at rest are what the server has, and so is the title typed last into the panel
\* of an issue: loadBoard, handleTitleInput and saveTitle.
THEOREM IssuesAreCurrent == I!IssueSpec => [](BoardIsCurrent /\ TypedIsStored)
<1>1. I!IssueInit => IssueInv
  BY InitIssue, BoardsAssumption
<1>2. IssueInv /\ [I!IssueNext]_(I!issueVars) => IssueInv'
  BY NextIssue
<1>3. QED
  BY <1>1, <1>2, IssueShows, PTL DEF I!IssueSpec

\* The text typed last into the panel of an issue is what saveTitle stored, when the
\* panel stayed, no save waits and no answer failed or was overtaken.
COROLLARY TypedTitleIsStored == I!IssueSpec => []TypedIsStored
<1>1. BoardIsCurrent /\ TypedIsStored => TypedIsStored
  OBVIOUS
<1>2. QED
  BY <1>1, IssuesAreCurrent, PTL

-----------------------------------------------------------------------------
(* All parts *)

BoardsInv ==
    /\ CardInv /\ DialogInv /\ MarksFit /\ CreateInv /\ IssueInv /\ PanelInv
    /\ ButtonsInv /\ DiffInv /\ FillInv

\* A part that does not move.
LEMMA PartRests ==
    /\ UNCHANGED cardVars => UNCHANGED K!cardVars
    /\ UNCHANGED dialogVars => UNCHANGED D!dialogVars
    /\ UNCHANGED createVars => UNCHANGED C!createVars
    /\ UNCHANGED issueVars => UNCHANGED I!issueVars
    /\ UNCHANGED panelVars => UNCHANGED P!panelVars
    /\ UNCHANGED buttonVars => UNCHANGED Q!buttonVars
    /\ UNCHANGED overlayVars => UNCHANGED O!overlayVars
<1>1. UNCHANGED cardVars => UNCHANGED K!cardVars
  BY DEF cardVars, K!cardVars, K!boardVars, K!paneVars
<1>2. UNCHANGED createVars => UNCHANGED C!createVars
  BY DEF createVars, C!createVars, C!choices, C!offers, C!network
<1>3. UNCHANGED panelVars => UNCHANGED P!panelVars
  BY DEF panelVars, P!panelVars, P!texts, P!pickers, P!links, P!network
<1>4. UNCHANGED buttonVars => UNCHANGED Q!buttonVars
  BY DEF buttonVars, Q!buttonVars
<1>5. UNCHANGED overlayVars => UNCHANGED O!overlayVars
  BY DEF overlayVars, O!overlayVars, O!diffVars, O!formVars
<1>6. UNCHANGED issueVars => UNCHANGED I!issueVars
  BY DEF issueVars, I!issueVars, I!panel, I!network
<1>7. UNCHANGED dialogVars => UNCHANGED D!dialogVars
  BY DEF dialogVars, D!dialogVars, D!logs, D!marks
<1>8. QED
  BY <1>1, <1>2, <1>3, <1>4, <1>5, <1>6, <1>7

\* What TLC checks of the parts on a small instance: whichever part moves, and for any
\* number of requests, sockets, dialogs, panels and texts.
THEOREM BoardsAreSound ==
    BoardsSpec => [](/\ BoardIsWatched /\ DialogIsWatched /\ ShowsItsOwn /\ DialogConverges
                     /\ FormFollowsAgent /\ TextIsStored /\ BoardIsCurrent /\ TypedIsStored
                     /\ ButtonsBelong /\ StreamEndsWithPanel /\ TitleIsKept)
<1>1. BoardsInit => BoardsInv
  <2>1. BoardsInit => /\ K!CardInit /\ D!DialogInit /\ C!CreateInit /\ I!IssueInit /\ P!PanelInit
                      /\ Q!ButtonsInit /\ O!OverlaysInit
    BY DEF BoardsInit
  <2>2. C!CreateAssumption /\ I!IssueAssumption
    BY BoardsAssumption
  <2>3. QED
    BY <2>1, <2>2, InitCard, InitDialog, InitCreate, InitIssue, InitPanel, InitButtons,
       InitOverlays DEF BoardsInv
<1>2. BoardsInv /\ [BoardsNext]_boardsVars => BoardsInv'
  <2> SUFFICES ASSUME BoardsInv, [BoardsNext]_boardsVars PROVE BoardsInv'
    OBVIOUS
  <2>1. /\ K!CardNext \/ UNCHANGED cardVars
        /\ D!DialogNext \/ UNCHANGED dialogVars
        /\ C!CreateNext \/ UNCHANGED createVars
        /\ I!IssueNext \/ UNCHANGED issueVars
        /\ P!PanelNext \/ UNCHANGED panelVars
        /\ Q!ButtonsNext \/ UNCHANGED buttonVars
        /\ O!OverlaysNext \/ UNCHANGED overlayVars
    <3>1. CASE UNCHANGED boardsVars
      BY <3>1 DEF boardsVars
    <3>2. CASE BoardsNext
      BY <3>2, Zenon DEF BoardsNext
    <3>3. QED
      BY <3>1, <3>2
  <2>2. /\ [K!CardNext]_(K!cardVars) /\ [D!DialogNext]_(D!dialogVars)
        /\ [C!CreateNext]_(C!createVars)
        /\ [I!IssueNext]_(I!issueVars) /\ [P!PanelNext]_(P!panelVars)
        /\ [Q!ButtonsNext]_(Q!buttonVars) /\ [O!OverlaysNext]_(O!overlayVars)
    BY <2>1, PartRests
  <2>3. CardInv' /\ CreateInv'
    BY <2>2, NextCard, NextCreate, BoardsAssumption DEF BoardsInv
  <2>4. PanelInv' /\ ButtonsInv'
    BY <2>2, NextPanel, NextButtons, BoardsAssumption DEF BoardsInv
  <2>5. DiffInv' /\ FillInv'
    BY <2>2, NextOverlays, BoardsAssumption DEF BoardsInv
  <2>6. IssueInv'
    BY <2>2, NextIssue DEF BoardsInv
  <2>7. DialogInv' /\ MarksFit'
    BY <2>2, NextDialog DEF BoardsInv
  <2>8. QED
    BY <2>3, <2>4, <2>5, <2>6, <2>7 DEF BoardsInv
<1>3. BoardsInv => /\ BoardIsWatched /\ DialogIsWatched /\ ShowsItsOwn /\ DialogConverges
                   /\ FormFollowsAgent /\ TextIsStored /\ BoardIsCurrent /\ TypedIsStored
                   /\ ButtonsBelong /\ StreamEndsWithPanel /\ TitleIsKept
  BY CardShows, DialogShows, CreateShows, IssueShows, PanelShowsTexts, ButtonsShow,
     OverlaysShow DEF BoardsInv
<1>4. QED
  BY <1>1, <1>2, <1>3, PTL DEF BoardsSpec
==============================================================================
