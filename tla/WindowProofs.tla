------------------------------- MODULE WindowProofs --------------------------------
(***************************************************************************)
(* What is proved of the window procedure and what it serves.              *)
(*                                                                         *)
(* Of Window, for screens, pictures and frames of any size and any number  *)
(* of messages: the menu bar follows the modes and reveals, the swap chain *)
(* follows the window, and the picture stays where it is while the frame   *)
(* around it changes.                                                      *)
(*                                                                         *)
(* Of Pointer, in the second half, for any number of presses, moves, keys  *)
(* and messages waiting: what the hand meant is what the player does, and  *)
(* no gesture outlives the button that began it.                           *)
(***************************************************************************)
EXTENDS Window, Pointer, TLAPS

-----------------------------------------------------------------------------
(* The inductive invariant, in named parts.                                 *)

\* The caption and the menu bar of a window.
TopOf(x) ==
    IF x.frameless THEN 0
    ELSE (IF x.popup THEN 0 ELSE Caption) + (IF x.attached THEN MenuBar ELSE 0)

\* The frame is the one of the mode, and there is room for it.
Drawn(x) ==
    /\ x.top = TopOf(x)
    /\ x.h >= x.top + (IF x.popup THEN 0 ELSE MinClient)

\* A window between two steps.
Sits(x) ==
    /\ x \in WindowType /\ x.popup = x.borderless
    /\ x.attached <=> Docked(x) \/ x.reveal
    /\ Drawn(x)

\* What is wanted of the swap chain is the size of the window, or it has it.
FrameInv ==
    /\ Sits(w)
    /\ request \in Nat \cup {None} /\ chain \in Nat
    /\ request # None => request = Client(w)
    /\ ResizeReaches

WindowInv == TypeOK /\ FrameInv

LEMMA Sizes ==
    /\ Screen \in Nat /\ Work \in Nat /\ MinClient \in Nat
    /\ MinClient >= 1 /\ MinClient + 2 <= Work /\ Work <= Screen
    /\ \A c \in Contents : c \in Nat /\ c >= 1
    /\ None = 0 - 1 /\ None \in Int /\ None \notin Nat /\ Caption = 1 /\ MenuBar = 1
    /\ MaxMessages \in Nat
BY ConstantsOK DEF ConstantsOK, None, Caption, MenuBar

-----------------------------------------------------------------------------
(* The rectangle.                                                           *)

LEMMA TypedWindow ==
    ASSUME NEW x \in WindowType
    PROVE  /\ x.y \in Int /\ x.h \in Int /\ x.top \in Int /\ x.popup \in BOOLEAN
           /\ x.borderless \in BOOLEAN /\ x.frameless \in BOOLEAN /\ x.visible \in BOOLEAN
           /\ x.reveal \in BOOLEAN /\ x.attached \in BOOLEAN
           /\ Client(x) \in Int /\ Origin(x) \in Int /\ Docked(x) \in BOOLEAN
BY DEF WindowType, Client, Origin, Docked

LEMMA TopBound ==
    ASSUME NEW x
    PROVE  TopOf(x) \in 0 .. 2 /\ (x.popup => TopOf(x) <= 1)
BY Sizes DEF TopOf

\* What placing, framing and the menu leave alone.
SameModes(q, x) ==
    /\ q.popup = x.popup /\ q.borderless = x.borderless /\ q.frameless = x.frameless
    /\ q.visible = x.visible /\ q.reveal = x.reveal

LEMMA FramedDraws ==
    ASSUME NEW x \in WindowType
    PROVE  LET q == Framed(x) IN
           /\ q \in WindowType /\ q.top = TopOf(x) /\ q.y = x.y /\ q.h = x.h
           /\ SameModes(q, x) /\ q.attached = x.attached
<1>1. Framed(x) = [x EXCEPT !.top = TopOf(x)]
      BY DEF Framed, TopOf
<1>2. TopOf(x) \in 0 .. 2
      BY TopBound
<1> QED BY <1>1, <1>2 DEF WindowType, SameModes

LEMMA TopSame ==
    ASSUME NEW x, NEW q, SameModes(q, x), q.attached = x.attached
    PROVE  TopOf(q) = TopOf(x)
BY DEF TopOf, SameModes

(* A window that is placed is drawn, and has the height asked for unless    *)
(* its client would be too small.                                           *)
LEMMA PlacedDraws ==
    ASSUME NEW x \in WindowType, NEW y \in Int, NEW h \in Int
    PROVE  LET q == Placed(x, y, h) IN
           /\ q \in WindowType /\ q.top = TopOf(x) /\ q.y = y
           /\ q.h = IF x.popup THEN h ELSE Larger(h, MinClient + TopOf(x))
           /\ SameModes(q, x) /\ q.attached = x.attached
           /\ ~x.popup \/ h >= TopOf(x) => Drawn(q)
<1> DEFINE k == IF x.popup THEN h ELSE Larger(h, MinClient + Chrome(x.frameless, x.attached))
           o == [x EXCEPT !.y = y, !.h = k]
           q == Placed(x, y, h)
<1>1. ~x.popup => Chrome(x.frameless, x.attached) = TopOf(x)
      BY Sizes DEF Chrome, TopOf
<1>2. k = IF x.popup THEN h ELSE Larger(h, MinClient + TopOf(x))
      BY <1>1
<1> HIDE DEF k
<1>3. k \in Int
      BY <1>2, TopBound, Sizes DEF Larger
<1>4. /\ o \in WindowType /\ o.y = y /\ o.h = k /\ SameModes(o, x)
      /\ o.attached = x.attached
      BY <1>3 DEF WindowType, SameModes
<1>5. q = Framed(o)
      BY DEF Placed, k
<1> HIDE DEF o
<1>6. TopOf(o) = TopOf(x)
      BY <1>4, TopSame
<1>7. /\ q \in WindowType /\ q.top = TopOf(x) /\ q.y = y /\ q.h = k
      /\ SameModes(q, x) /\ q.attached = x.attached
      BY <1>4, <1>5, <1>6, FramedDraws DEF SameModes
<1> HIDE DEF q
<1>8. TopOf(q) = TopOf(x)
      BY <1>7, TopSame
<1>9. ~x.popup \/ h >= TopOf(x) => Drawn(q)
  <2>1. TopOf(x) \in Int
        BY TopBound
  <2>2. q.popup = x.popup
        BY <1>7 DEF SameModes
  <2>3. CASE x.popup
        BY <1>2, <1>7, <1>8, <2>1, <2>2, <2>3 DEF Drawn
  <2>4. CASE ~x.popup
    <3>1. k >= MinClient + TopOf(x)
          BY <1>2, <2>1, <2>4, Sizes DEF Larger
    <3> QED BY <1>7, <1>8, <2>1, <2>2, <2>4, <3>1, Sizes DEF Drawn
  <2> QED BY <2>3, <2>4
<1> QED BY <1>2, <1>7, <1>9 DEF q

(* The menu bar comes and goes around a client that stays.                  *)
LEMMA SyncedKeeps ==
    ASSUME NEW x \in WindowType
    PROVE  LET q == Synced(x) IN
           /\ q \in WindowType /\ SameModes(q, x)
           /\ q.attached = (Docked(x) \/ x.reveal)
           /\ Drawn(x) => Drawn(q) /\ Client(q) = Client(x) /\ Origin(q) = Origin(x)
<1> DEFINE want == Docked(x) \/ x.reveal
           o == [x EXCEPT !.attached = want]
           bare == Framed(o)
           y == x.y + (Origin(x) - Origin(bare))
           h == x.h + (Client(x) - Client(bare))
           q == Synced(x)
<1>1. want \in BOOLEAN
      BY TypedWindow
<1>2. CASE want = x.attached
  <2>1. q = x
        BY <1>2 DEF Synced
  <2> QED BY <1>2, <2>1 DEF SameModes
<1>3. CASE want # x.attached
  <2>1. q = Placed(bare, y, h)
        BY <1>3 DEF Synced
  <2> HIDE DEF want
  <2>2. /\ o \in WindowType /\ SameModes(o, x) /\ o.attached = want
        /\ o.y = x.y /\ o.h = x.h
        BY <1>1 DEF WindowType, SameModes
  <2> HIDE DEF o, q
  <2>3. /\ bare \in WindowType /\ bare.top = TopOf(o) /\ bare.y = x.y /\ bare.h = x.h
        /\ SameModes(bare, o) /\ bare.attached = want
        BY <2>2, FramedDraws
  <2> HIDE DEF bare
  <2>4. TopOf(bare) = TopOf(o) /\ TopOf(o) \in Int
        BY <2>2, <2>3, TopSame, TopBound
  <2>5. /\ x.y \in Int /\ x.h \in Int /\ x.top \in Int
        BY TypedWindow
  <2>6. /\ y = x.y + x.top - TopOf(o) + (x.y - x.y)
        /\ h = x.h - x.top + TopOf(o)
        /\ y \in Int /\ h \in Int
        BY <2>3, <2>4, <2>5 DEF Origin, Client
  <2> HIDE DEF y, h
  <2>7. /\ q \in WindowType /\ q.top = TopOf(o) /\ q.y = y
        /\ q.h = IF bare.popup THEN h ELSE Larger(h, MinClient + TopOf(o))
        /\ SameModes(q, bare) /\ q.attached = want
        /\ ~bare.popup \/ h >= TopOf(o) => Drawn(q)
        BY <2>1, <2>3, <2>4, <2>6, PlacedDraws
  <2>8. SameModes(q, x) /\ bare.popup = x.popup
        BY <2>2, <2>3, <2>7 DEF SameModes
  <2>9. ASSUME Drawn(x)
        PROVE  Drawn(q) /\ Client(q) = Client(x) /\ Origin(q) = Origin(x)
    <3>1. x.h >= x.top + (IF x.popup THEN 0 ELSE MinClient)
          BY <2>9 DEF Drawn
    <3>2. h >= TopOf(o) /\ (~x.popup => h >= MinClient + TopOf(o))
          BY <2>4, <2>5, <2>6, <3>1, Sizes
    <3>3. q.h = h
          BY <2>4, <2>6, <2>7, <2>8, <3>2, Sizes DEF Larger
    <3>4. Client(q) = Client(x) /\ Origin(q) = Origin(x)
          BY <2>4, <2>5, <2>6, <2>7, <3>3 DEF Client, Origin
    <3> QED BY <2>7, <3>2, <3>4
  <2> QED BY <2>7, <2>8, <2>9 DEF want, q
<1> QED BY <1>2, <1>3

(* What set_menu_reveal leaves: the menu bar of the modes or the reveal,    *)
(* and a client that did not move.                                          *)
LEMMA RevealedKeeps ==
    ASSUME NEW x \in WindowType, NEW reveal \in BOOLEAN
    PROVE  LET q == Revealed(x, reveal) IN
           /\ q \in WindowType
           /\ q.popup = x.popup /\ q.borderless = x.borderless
           /\ q.frameless = x.frameless /\ q.visible = x.visible /\ q.reveal = reveal
           /\ q.attached = (Docked(x) \/ reveal)
           /\ Drawn(x) => Drawn(q) /\ Client(q) = Client(x) /\ Origin(q) = Origin(x)
<1> DEFINE o == [x EXCEPT !.reveal = reveal]
           q == Revealed(x, reveal)
<1>1. /\ o \in WindowType /\ o.reveal = reveal
      /\ o.popup = x.popup /\ o.borderless = x.borderless /\ o.attached = x.attached
      /\ o.frameless = x.frameless /\ o.visible = x.visible
      /\ o.y = x.y /\ o.h = x.h /\ o.top = x.top
      BY DEF WindowType
<1>2. q = Synced(o)
      BY DEF Revealed
<1> HIDE DEF o, q
<1>3. /\ q \in WindowType /\ SameModes(q, o)
      /\ q.attached = (Docked(o) \/ o.reveal)
      /\ Drawn(o) => Drawn(q) /\ Client(q) = Client(o) /\ Origin(q) = Origin(o)
      BY <1>1, <1>2, SyncedKeeps
<1>4. /\ Docked(o) = Docked(x) /\ Client(o) = Client(x) /\ Origin(o) = Origin(x)
      /\ Drawn(x) => Drawn(o)
      BY <1>1 DEF Docked, Client, Origin, Drawn, TopOf
<1> QED BY <1>1, <1>3, <1>4 DEF SameModes, q

-----------------------------------------------------------------------------
(* Every new rectangle is one of a window that sits.                        *)

\* The menu bar of the modes, or the reveal, on a window in one of its styles.
Moded(x) ==
    /\ x \in WindowType /\ x.popup = x.borderless
    /\ x.attached <=> Docked(x) \/ x.reveal

\* The frame and the menu bar are the same.
SameFrame(q, x) == q.frameless = x.frameless /\ q.attached = x.attached

LEMMA PlacedSits ==
    ASSUME NEW x, Moded(x), NEW y \in Int, NEW h \in Int, ~x.popup \/ h >= 1
    PROVE  Sits(Placed(x, y, h)) /\ SameFrame(Placed(x, y, h), x)
<1> DEFINE q == Placed(x, y, h)
<1>1. TopOf(x) \in 0 .. 2 /\ (x.popup => TopOf(x) <= 1) /\ x \in WindowType
      BY TopBound DEF Moded
<1>2. ~x.popup \/ h >= TopOf(x)
      BY <1>1
<1>3. q \in WindowType /\ SameModes(q, x) /\ q.attached = x.attached /\ Drawn(q)
      BY <1>1, <1>2, PlacedDraws
<1> HIDE DEF q
<1>4. Docked(q) = Docked(x)
      BY <1>3 DEF Docked, SameModes
<1> QED BY <1>3, <1>4 DEF Sits, Moded, SameModes, SameFrame, q

LEMMA SitsIsModed ==
    ASSUME NEW x, Sits(x)
    PROVE  Moded(x) /\ Drawn(x) /\ x \in WindowType
BY DEF Sits, Moded

LEMMA SitsSizes ==
    ASSUME NEW x, Sits(x)
    PROVE  Client(x) \in Nat /\ x.h \in Int /\ x.y \in Int /\ x.top \in 0 .. 2
<1>1. x \in WindowType /\ x.h >= x.top + (IF x.popup THEN 0 ELSE MinClient)
      BY DEF Sits, Drawn
<1>2. x.h \in Int /\ x.y \in Int /\ x.top \in 0 .. 2
      BY <1>1 DEF WindowType
<1>3. x.h >= x.top
      BY <1>1, <1>2, Sizes
<1> QED BY <1>2, <1>3 DEF Client

\* Revealing or hiding, in every style.
LEMMA RevealedSits ==
    ASSUME NEW x, Sits(x), NEW reveal \in BOOLEAN
    PROVE  LET q == Revealed(x, reveal) IN
           /\ Sits(q)
           /\ Client(q) = Client(x) /\ Origin(q) = Origin(x)
           /\ q.frameless = x.frameless
<1> DEFINE q == Revealed(x, reveal)
<1>1. x \in WindowType /\ x.popup = x.borderless /\ Drawn(x)
      BY DEF Sits
<1>2. /\ q \in WindowType
      /\ q.popup = x.popup /\ q.borderless = x.borderless
      /\ q.frameless = x.frameless /\ q.visible = x.visible /\ q.reveal = reveal
      /\ q.attached = (Docked(x) \/ reveal)
      /\ Drawn(q) /\ Client(q) = Client(x) /\ Origin(q) = Origin(x)
      BY <1>1, RevealedKeeps
<1> HIDE DEF q
<1>3. Docked(q) = Docked(x)
      BY <1>2 DEF Docked
<1> QED BY <1>1, <1>2, <1>3 DEF Sits, q

LEMMA CycledSits ==
    ASSUME NEW x, Sits(x)
    PROVE  LET q == Cycled(x) IN
           /\ Sits(q) /\ Client(q) = Client(x) /\ Origin(q) = Origin(x)
           /\ q.frameless = x.frameless
<1> DEFINE o == [x EXCEPT !.visible = ~@]
           q == Cycled(x)
<1>1. x \in WindowType /\ x.popup = x.borderless /\ Drawn(x)
      BY DEF Sits
<1>2. /\ o \in WindowType /\ o.popup = x.popup /\ o.borderless = x.borderless
      /\ o.frameless = x.frameless /\ o.attached = x.attached
      /\ o.y = x.y /\ o.h = x.h /\ o.top = x.top
      BY <1>1 DEF WindowType
<1>3. q = Revealed(o, FALSE)
      BY DEF Cycled
<1> HIDE DEF o, q
<1>4. Drawn(o) /\ Client(o) = Client(x) /\ Origin(o) = Origin(x)
      BY <1>1, <1>2 DEF Drawn, TopOf, Client, Origin
<1>5. /\ q \in WindowType
      /\ q.popup = o.popup /\ q.borderless = o.borderless
      /\ q.frameless = o.frameless /\ q.visible = o.visible /\ q.reveal = FALSE
      /\ q.attached = (Docked(o) \/ FALSE)
      /\ Drawn(q) /\ Client(q) = Client(o) /\ Origin(q) = Origin(o)
      BY <1>2, <1>3, <1>4, RevealedKeeps
<1>6. Docked(q) = Docked(o)
      BY <1>5 DEF Docked
<1> QED BY <1>1, <1>2, <1>4, <1>5, <1>6 DEF Sits, q

LEMMA EnteredSits ==
    ASSUME NEW x, Sits(x), ~x.borderless
    PROVE  /\ Sits(EnteredFullscreen(x))
           /\ EnteredFullscreen(x).frameless = x.frameless
<1> DEFINE o == [x EXCEPT !.borderless = TRUE]
           r == Revealed(o, FALSE)
           p == [r EXCEPT !.popup = TRUE]
<1>1. x \in WindowType
      BY DEF Sits
<1>2. o \in WindowType /\ o.borderless = TRUE /\ o.frameless = x.frameless
      BY <1>1 DEF WindowType
<1> HIDE DEF o
<1>3. /\ r \in WindowType /\ r.borderless = o.borderless /\ r.reveal = FALSE
      /\ r.frameless = o.frameless
      /\ r.attached = (Docked(o) \/ FALSE)
      BY <1>2, RevealedKeeps
<1> HIDE DEF r
<1>4. r.attached = FALSE
      BY <1>2, <1>3 DEF Docked
<1>5. /\ p \in WindowType /\ p.popup = TRUE /\ p.borderless = r.borderless
      /\ p.reveal = r.reveal /\ p.attached = r.attached /\ p.frameless = r.frameless
      BY <1>3 DEF WindowType
<1>6. EnteredFullscreen(x) = Placed(p, 0, Screen)
      BY DEF EnteredFullscreen, p, r, o
<1> HIDE DEF p
<1>7. Moded(p)
      BY <1>2, <1>3, <1>4, <1>5 DEF Moded, Docked
<1>8. 0 \in Int /\ Screen \in Int /\ Screen >= 1
      BY Sizes
<1>9. Sits(Placed(p, 0, Screen)) /\ SameFrame(Placed(p, 0, Screen), p)
      BY <1>7, <1>8, PlacedSits
<1> QED BY <1>2, <1>3, <1>5, <1>6, <1>9 DEF SameFrame

LEMMA LeftSits ==
    ASSUME NEW x, Sits(x), saved.y \in Int, saved.h \in Int
    PROVE  Sits(LeftFullscreen(x)) /\ LeftFullscreen(x).frameless = x.frameless
<1> DEFINE o == [x EXCEPT !.popup = FALSE, !.borderless = FALSE]
           r == Revealed(o, FALSE)
<1>1. x \in WindowType
      BY DEF Sits
<1>2. /\ o \in WindowType /\ o.borderless = FALSE /\ o.popup = FALSE
      /\ o.frameless = x.frameless
      BY <1>1 DEF WindowType
<1> HIDE DEF o
<1>3. /\ r \in WindowType /\ r.borderless = o.borderless /\ r.popup = o.popup
      /\ r.frameless = o.frameless /\ r.visible = o.visible /\ r.reveal = FALSE
      /\ r.attached = (Docked(o) \/ FALSE)
      BY <1>2, RevealedKeeps
<1>4. LeftFullscreen(x) = Placed(r, saved.y, saved.h)
      BY DEF LeftFullscreen, o
<1> HIDE DEF r
<1>5. Docked(r) = Docked(o)
      BY <1>3 DEF Docked
<1>6. Moded(r) /\ ~r.popup
      BY <1>2, <1>3, <1>5 DEF Moded
<1> QED BY <1>2, <1>3, <1>4, <1>6, PlacedSits DEF SameFrame

(* The frame goes or comes around a client that stays as high, if the work  *)
(* area has room for it.                                                    *)
LEMMA ReframedSits ==
    ASSUME NEW x, Sits(x), ~x.borderless
    PROVE  LET q == Reframed(x) IN
           /\ Sits(q)
           /\ Client(x) \in MinClient .. (Work - Caption - MenuBar) => Client(q) = Client(x)
<1> DEFINE o == [x EXCEPT !.frameless = ~x.frameless]
           r == Revealed(o, FALSE)
           h == Smaller(Client(x) + Chrome(~x.frameless, x.visible), Work)
           y == Smaller(Larger(x.y, 0), Larger(Work - h, 0))
           q == Reframed(x)
<1>1. x \in WindowType /\ ~x.popup
      BY DEF Sits
<1>2. /\ o \in WindowType /\ o.borderless = FALSE /\ o.popup = FALSE
      /\ o.frameless = ~x.frameless /\ o.visible = x.visible
      BY <1>1 DEF WindowType
<1>3. q = Placed(r, y, h)
      BY DEF Reframed
<1> HIDE DEF o, q
<1>4. /\ r \in WindowType /\ r.borderless = o.borderless /\ r.popup = o.popup
      /\ r.frameless = o.frameless /\ r.visible = o.visible /\ r.reveal = FALSE
      /\ r.attached = (Docked(o) \/ FALSE)
      BY <1>2, RevealedKeeps
<1> HIDE DEF r
<1>5. Chrome(~x.frameless, x.visible) = TopOf(r)
      BY <1>2, <1>4 DEF Chrome, TopOf, Docked
<1>6. Client(x) \in Nat /\ x.y \in Int /\ TopOf(r) \in 0 .. 2
      BY SitsSizes, TopBound
<1>7. h = Smaller(Client(x) + TopOf(r), Work)
      BY <1>5
<1> HIDE DEF h
<1>8. h \in Int
      BY <1>6, <1>7, Sizes DEF Smaller
<1>9. y \in Int
      BY <1>6, <1>8, Sizes DEF Smaller, Larger
<1> HIDE DEF y
<1>10. Docked(r) = Docked(o)
      BY <1>4 DEF Docked
<1>11. Moded(r) /\ ~r.popup
      BY <1>2, <1>4, <1>10 DEF Moded
<1>12. Sits(q)
      BY <1>3, <1>8, <1>9, <1>11, PlacedSits
<1>13. q.top = TopOf(r) /\ q.h = Larger(h, MinClient + TopOf(r))
      BY <1>3, <1>4, <1>8, <1>9, <1>11, PlacedDraws
<1>14. ASSUME Client(x) \in MinClient .. (Work - Caption - MenuBar)
       PROVE  Client(q) = Client(x)
  <2>1. Client(x) >= MinClient /\ Client(x) + TopOf(r) <= Work
        BY <1>6, <1>14, Sizes
  <2>2. h = Client(x) + TopOf(r)
        BY <1>6, <1>7, <2>1, Sizes DEF Smaller
  <2>3. q.h = h
        BY <1>6, <1>13, <2>1, <2>2, Sizes DEF Larger
  <2> QED BY <1>6, <1>13, <2>2, <2>3 DEF Client
<1> QED BY <1>12, <1>14 DEF q

LEMMA ChromeBound ==
    ASSUME NEW frameless, NEW menu
    PROVE  Chrome(frameless, menu) \in 0 .. 2
BY Sizes DEF Chrome

LEMMA FittedSits ==
    ASSUME NEW x, Sits(x)
    PROVE  Sits(Fitted(x)) /\ SameFrame(Fitted(x), x)
<1>1. CASE x.borderless
      BY <1>1 DEF Fitted, SameFrame
<1>2. CASE ~x.borderless
  <2>1. Moded(x) /\ ~x.popup /\ 0 \in Int /\ Work \in Int
        BY <1>2, SitsIsModed, Sizes DEF Sits
  <2>2. Fitted(x) = Placed(x, 0, Work)
        BY <1>2 DEF Fitted
  <2> QED BY <2>1, <2>2, PlacedSits
<1> QED BY <1>1, <1>2

LEMMA HalvedSits ==
    ASSUME NEW x, Sits(x), NEW c \in Contents
    PROVE  Sits(Halved(x, c)) /\ SameFrame(Halved(x, c), x)
<1>1. CASE x.borderless
      BY <1>1 DEF Halved, SameFrame
<1>2. CASE ~x.borderless
  <2> DEFINE h == Larger(c, MinClient) + Chrome(x.frameless, Docked(x))
             y == Smaller(Larger(x.y, 0), Work - h)
  <2>1. Moded(x) /\ ~x.popup /\ x.y \in Int
        BY <1>2, SitsIsModed, SitsSizes DEF Sits
  <2>2. Halved(x, c) = Placed(x, y, h)
        BY <1>2 DEF Halved
  <2>3. h \in Int
        BY ChromeBound, Sizes DEF Larger
  <2> HIDE DEF h
  <2>4. y \in Int
        BY <2>1, <2>3, Sizes DEF Larger, Smaller
  <2> HIDE DEF y
  <2> QED BY <2>1, <2>2, <2>3, <2>4, PlacedSits
<1> QED BY <1>1, <1>2

LEMMA OuterForIsInt ==
    ASSUME NEW x, NEW c \in Int
    PROVE  /\ OuterFor(x, c) \in Int
           /\ c >= MinClient => OuterFor(x, c) >= Chrome(x.frameless, Docked(x))
BY ChromeBound, Sizes DEF OuterFor, Smaller

LEMMA SizedSits ==
    ASSUME NEW x, Sits(x), NEW c \in Contents, NEW q \in SizedForContent(x, c)
    PROVE  Sits(q) /\ SameFrame(q, x)
<1> DEFINE b == Smaller(Larger(c, MinClient), Work)
           h == OuterFor(x, b)
<1>1. CASE x.borderless
      BY <1>1 DEF SizedForContent, SameFrame
<1>2. CASE ~x.borderless
  <2>1. Moded(x) /\ ~x.popup /\ x.y \in Int
        BY <1>2, SitsIsModed, SitsSizes DEF Sits
  <2>2. b \in Int
        BY Sizes DEF Larger, Smaller
  <2>3. \E y \in {(Work - h) \div 2, x.y} : q = Placed(x, y, h)
        BY <1>2 DEF SizedForContent
  <2> HIDE DEF b
  <2>4. h \in Int
        BY <2>2, OuterForIsInt
  <2> HIDE DEF h
  <2>5. (Work - h) \div 2 \in Int
        BY <2>4, Sizes
  <2>6. PICK y \in Int : q = Placed(x, y, h)
        BY <2>1, <2>3, <2>5
  <2> QED BY <2>1, <2>4, <2>6, PlacedSits
<1> QED BY <1>1, <1>2

\* The client height that is asked for is one.
LEMMA AskedForTypes ==
    ASSUME NEW x, NEW h \in Int, h >= Chrome(x.frameless, Docked(x))
    PROVE  AskedFor(x, h) \in Nat \cup {None}
<1>1. Chrome(x.frameless, Docked(x)) \in 0 .. 2
      BY ChromeBound
<1> QED BY <1>1 DEF AskedFor

-----------------------------------------------------------------------------
(* What the steps do to what is wanted of the swap chain.                   *)

\* A window that becomes another has the size asked for, or asks for it.
LEMMA BecomesServed ==
    ASSUME FrameInv, NEW x, Sits(x), Becomes(x), chain' = chain
    PROVE  FrameInv'
<1>1. w' = x /\ request' = IF x.h # w.h \/ Client(x) # Client(w) THEN Client(x) ELSE request
      BY DEF Becomes, Client
<1>2. /\ Sits(w) /\ request \in Nat \cup {None} /\ chain \in Nat
      /\ request # None => request = Client(w)
      /\ ResizeReaches
      BY DEF FrameInv
<1>3. Client(x) \in Nat /\ None \notin Nat
      BY SitsSizes, Sizes
<1>4. Sits(w)' /\ Client(w)' = Client(x)
      BY <1>1 DEF Sits, Client, Docked, Drawn, TopOf
<1>5. CASE x.h # w.h \/ Client(x) # Client(w)
  <2>1. request' = Client(x)
        BY <1>1, <1>5
  <2> QED BY <1>2, <1>3, <1>4, <2>1 DEF FrameInv, ResizeReaches
<1>6. CASE ~(x.h # w.h \/ Client(x) # Client(w))
  <2>1. request' = request /\ Client(x) = Client(w)
        BY <1>1, <1>6
  <2> QED BY <1>2, <1>4, <2>1 DEF FrameInv, ResizeReaches
<1> QED BY <1>5, <1>6

LEMMA FrameKept ==
    ASSUME FrameInv, UNCHANGED <<w, request, chain>>
    PROVE  FrameInv'
BY DEF FrameInv, ResizeReaches, Sits, Client, Docked, Drawn, TopOf

(* A tick gives the swap chain the size that was asked for, by itself or    *)
(* before.                                                                  *)
LEMMA TickedServed ==
    ASSUME FrameInv, fresh \in Contents \cup {None}, asked \in Nat \cup {None}, Ticked
    PROVE  /\ FrameInv' /\ fresh' \in {fresh, None} /\ asked' \in Nat \cup {None}
           /\ saved' = saved
           /\ SameFrame(w', w)
<1>1. /\ Sits(w) /\ request \in Nat \cup {None} /\ chain \in Nat
      /\ request # None => request = Client(w)
      /\ request # None \/ chain = Client(w)
      BY DEF FrameInv, ResizeReaches
<1>a. PICK arrives \in {FALSE, fresh # None} : \E x \in Arriving(arrives) :
          LET due == IF x.h # w.h \/ Client(x) # Client(w) THEN Client(x) ELSE request IN
          /\ w' = x
          /\ chain' = IF due # None THEN due ELSE chain
          /\ request' = None
          /\ fresh' = IF arrives THEN None ELSE fresh
          /\ asked' = IF arrives THEN AskedFor(x, OuterFor(x, Larger(fresh, MinClient)))
                      ELSE asked
          /\ UNCHANGED saved
      BY Zenon DEF Ticked
<1>2. PICK x \in Arriving(arrives) :
          LET due == IF x.h # w.h \/ Client(x) # Client(w) THEN Client(x) ELSE request IN
          /\ w' = x
          /\ chain' = IF due # None THEN due ELSE chain
          /\ request' = None
          /\ fresh' = IF arrives THEN None ELSE fresh
          /\ asked' = IF arrives THEN AskedFor(x, OuterFor(x, Larger(fresh, MinClient)))
                      ELSE asked
          /\ UNCHANGED saved
      BY Zenon, <1>a
<1> DEFINE due == IF x.h # w.h \/ Client(x) # Client(w) THEN Client(x) ELSE request
<1>3. /\ w' = x /\ chain' = IF due # None THEN due ELSE chain
      /\ request' = None
      BY <1>2
<1>4. Sits(x) /\ SameFrame(x, w)
  <2>1. CASE ~arrives
        BY <1>1, <1>2, <2>1 DEF SameFrame, Arriving
  <2>2. CASE arrives
    <3>1. fresh \in Contents /\ x \in SizedForContent(w, fresh)
          BY <1>2, <2>2 DEF Arriving
    <3> QED BY <1>1, <3>1, SizedSits
  <2> QED BY <2>1, <2>2
<1>5. Client(x) \in Nat /\ None \notin Nat
      BY <1>4, SitsSizes, Sizes
<1>6. Sits(w)' /\ Client(w)' = Client(x)
      BY <1>3, <1>4 DEF Sits, Client, Docked, Drawn, TopOf
<1>7. chain' = Client(x)
  <2>1. CASE x.h # w.h \/ Client(x) # Client(w)
        BY <1>3, <1>5, <2>1
  <2>2. CASE ~(x.h # w.h \/ Client(x) # Client(w))
    <3>1. due = request /\ Client(x) = Client(w)
          BY <2>2
    <3> HIDE DEF due
    <3> QED BY <1>1, <1>3, <3>1
  <2> QED BY <2>1, <2>2
<1>8. FrameInv'
      BY <1>3, <1>5, <1>6, <1>7 DEF FrameInv, ResizeReaches
<1>9. asked' \in Nat \cup {None}
  <2>1. CASE ~arrives
        BY <1>2, <2>1
  <2>2. CASE arrives
    <3> DEFINE c == Larger(fresh, MinClient)
               h == OuterFor(x, c)
    <3>1. c \in Int /\ c >= MinClient
      <4>1. fresh \in Contents
            BY <1>2, <2>2
      <4> QED BY <4>1, Sizes DEF Larger
    <3>2. asked' = AskedFor(x, h)
          BY <1>2, <2>2
    <3> HIDE DEF c
    <3>3. h \in Int /\ h >= Chrome(x.frameless, Docked(x))
          BY <3>1, OuterForIsInt
    <3> HIDE DEF h
    <3> QED BY <3>2, <3>3, AskedForTypes
  <2> QED BY <2>1, <2>2
<1> QED BY <1>2, <1>3, <1>4, <1>8, <1>9

-----------------------------------------------------------------------------
(* The rest of the state.                                                   *)

\* The types of what is not about the size.
RestInv ==
    /\ pc \in {"pump", "drain", "dialog"}
    /\ saved \in [y: Int, h: Int, client: Int]
    /\ loop \in {"none", "move", "menu"}
    /\ {flagged, timer, focused, held, help} \subseteq BOOLEAN
    /\ fresh \in Contents \cup {None}
    /\ asked \in Nat \cup {None} /\ messages \in 0 .. MaxMessages

LEMMA WindowInvParts == WindowInv <=> RestInv /\ FrameInv
BY DEF WindowInv, RestInv, FrameInv, TypeOK, Sits

LEMMA MessageTypes ==
    ASSUME RestInv, NEW kind, Message(kind)
    PROVE  messages' \in 0 .. MaxMessages /\ pc' = pc
BY Sizes DEF RestInv, Message

\* A window or a swap chain that changes changes nothing of the rest.
LEMMA RestKept ==
    ASSUME RestInv, UNCHANGED <<saved, modal, fresh, held, help>>,
           pc' \in {"pump", "drain", "dialog"}, asked' \in Nat \cup {None},
           messages' \in 0 .. MaxMessages
    PROVE  RestInv'
BY DEF RestInv, modal

LEMMA StepRest ==
    ASSUME RestInv, FrameInv, Next
    PROVE  RestInv'
<1> USE DEF frame, modal
<1>1. /\ pc \in {"pump", "drain", "dialog"} /\ messages \in 0 .. MaxMessages
      /\ asked \in Nat \cup {None} /\ fresh \in Contents \cup {None}
      BY DEF RestInv
<1>2. CASE KeyDown
  <2>1. PICK kind : Message(kind)
        BY <1>2 DEF KeyDown, Key
  <2> QED BY <1>1, <1>2, <2>1, MessageTypes, RestKept DEF KeyDown
<1>3. CASE KeyDownH
  <2>1. messages' \in 0 .. MaxMessages /\ pc' = pc
        BY <1>3, MessageTypes DEF KeyDownH, Key
  <2> QED BY <1>3, <2>1 DEF KeyDownH, RestInv
<1>4. CASE KeyUpH
  <2>1. messages' \in 0 .. MaxMessages /\ pc' = pc
        BY <1>4, MessageTypes DEF KeyUpH
  <2> QED BY <1>4, <2>1 DEF KeyUpH, RestInv
<1>5. CASE AltDown
  <2>1. messages' \in 0 .. MaxMessages /\ pc' = pc
        BY <1>5, MessageTypes DEF AltDown, Key
  <2> QED BY <1>1, <1>5, <2>1, RestKept DEF AltDown
<1>6. CASE KeyMenu
  <2>1. messages' \in 0 .. MaxMessages /\ pc' = pc
        BY <1>6, MessageTypes DEF KeyMenu, Key
  <2> QED BY <1>6, <2>1 DEF KeyMenu, RestInv
<1>7. CASE RightClick
  <2>1. messages' \in 0 .. MaxMessages /\ pc' = pc
        BY <1>7, MessageTypes DEF RightClick, Key
  <2>2. /\ loop' \in {"none", "move", "menu"} /\ flagged' \in BOOLEAN /\ timer' = TRUE
        /\ UNCHANGED <<saved, asked, focused, fresh, held, help>>
        BY <1>7 DEF RightClick, RestInv
  <2> QED BY <2>1, <2>2 DEF RestInv
<1>8. CASE ExitMenuLoop
  <2>1. messages' \in 0 .. MaxMessages /\ pc' = pc
        BY <1>8, MessageTypes DEF ExitMenuLoop
  <2> QED BY <1>8, <2>1 DEF ExitMenuLoop, RestInv
<1>9. CASE EnterSizeMove
  <2>1. messages' \in 0 .. MaxMessages /\ pc' = pc
        BY <1>9, MessageTypes DEF EnterSizeMove, Key
  <2> QED BY <1>9, <2>1 DEF EnterSizeMove, RestInv
<1>10. CASE SizeMove
  <2>1. messages' \in 0 .. MaxMessages /\ pc' = pc
        BY <1>10, MessageTypes DEF SizeMove
  <2> QED BY <1>1, <1>10, <2>1, RestKept DEF SizeMove
<1>11. CASE ExitSizeMove
  <2>1. messages' \in 0 .. MaxMessages /\ pc' = pc
        BY <1>11, MessageTypes DEF ExitSizeMove
  <2> QED BY <1>11, <2>1 DEF ExitSizeMove, RestInv
<1>12. CASE KillFocus \/ SetFocus
  <2>1. messages' \in 0 .. MaxMessages /\ pc' = pc
        BY <1>12, MessageTypes DEF KillFocus, SetFocus
  <2>2. /\ focused' \in BOOLEAN
        /\ UNCHANGED <<saved, asked, loop, flagged, timer, fresh, held, help>>
        BY <1>12 DEF KillFocus, SetFocus, Unfocused
  <2> QED BY <2>1, <2>2 DEF RestInv
<1>13. CASE DpiChanged
  <2>1. messages' \in 0 .. MaxMessages /\ pc' = pc
        BY <1>13, MessageTypes DEF DpiChanged
  <2> QED BY <1>1, <1>13, <2>1, RestKept DEF DpiChanged
<1>14. CASE ModalTick \/ Tick
  <2>1. Ticked /\ pc' \in {"pump", "drain", "dialog"} /\ UNCHANGED <<modal, held, help, messages>>
        BY <1>1, <1>14 DEF ModalTick, Tick
  <2>2. fresh' \in Contents \cup {None} /\ asked' \in Nat \cup {None} /\ saved' = saved
        BY <1>1, <2>1, TickedServed
  <2> QED BY <2>1, <2>2 DEF RestInv
<1>15. CASE Pumped
      BY <1>1, <1>15, RestKept DEF Pumped
<1>16. CASE ToggleBorderlessFullscreen
  <2>1. Sits(w)
        BY DEF FrameInv
  <2>2. w.y \in Int /\ w.h \in Int /\ Client(w) \in Int
        BY <2>1, SitsSizes
  <2>3. saved' \in [y: Int, h: Int, client: Int]
        BY <1>16, <2>2 DEF ToggleBorderlessFullscreen, RestInv
  <2>4. UNCHANGED <<pc, modal, fresh, held, help, messages>> /\ asked' = None
        BY <1>16 DEF ToggleBorderlessFullscreen
  <2> QED BY <2>3, <2>4 DEF RestInv
<1>17. CASE ToggleFramelessWindowed \/ CycleMenuBarMode
  <2>1. /\ UNCHANGED <<pc, saved, modal, fresh, held, help, messages>>
        /\ asked' \in {asked, None}
        BY <1>17 DEF ToggleFramelessWindowed, CycleMenuBarMode
  <2> QED BY <1>1, <2>1, RestKept
<1>18. CASE FitWindow
  <2>1. /\ UNCHANGED <<pc, saved, modal, fresh, held, help, messages>>
        /\ asked' = AskedFor(w, Work)
        BY <1>18 DEF FitWindow
  <2>2. Work \in Int /\ Work >= Chrome(w.frameless, Docked(w))
        BY ChromeBound, Sizes
  <2>3. asked' \in Nat \cup {None}
        BY <2>1, <2>2, AskedForTypes
  <2> QED BY <1>1, <2>1, <2>3, RestKept
<1>19. CASE HalfSizeWindow
  <2>1. /\ UNCHANGED <<pc, saved, modal, fresh, held, help, messages>>
        /\ \E c \in Contents : asked' = IF w.borderless THEN None ELSE Larger(c, MinClient)
        BY <1>19 DEF HalfSizeWindow
  <2>2. asked' \in Nat \cup {None}
        BY <2>1, Sizes DEF Larger
  <2> QED BY <1>1, <2>1, <2>2, RestKept
<1>20. CASE Open
      BY <1>20 DEF Open, RestInv
<1>21. CASE ShowHideHelp
      BY <1>21 DEF ShowHideHelp, RestInv
<1>22. CASE ShowDialog
  <2>1. /\ pc' = "dialog" /\ focused' = FALSE
        /\ UNCHANGED <<saved, asked, loop, flagged, timer, fresh, held, help, messages>>
        BY <1>22 DEF ShowDialog, Unfocused
  <2> QED BY <2>1 DEF RestInv
<1>23. CASE CloseDialog
  <2>1. /\ pc' = "drain" /\ focused' \in BOOLEAN /\ fresh' \in Contents \cup {None}
        /\ UNCHANGED <<saved, asked, loop, flagged, timer, held, help, messages>>
        BY <1>1, <1>23 DEF CloseDialog
  <2> QED BY <2>1 DEF RestInv
<1> QED
  BY <1>2, <1>3, <1>4, <1>5, <1>6, <1>7, <1>8, <1>9, <1>10, <1>11, <1>12, <1>13, <1>14,
     <1>15, <1>16, <1>17, <1>18, <1>19, <1>20, <1>21, <1>22, <1>23 DEF Next, Drain

-----------------------------------------------------------------------------
(* The window and the swap chain.                                           *)

\* What a step that changes the frame or the menu bar does to the picture.
PictureStep ==
    /\ w'.attached # w.attached /\ ~Due("fullscreen") /\ ~Due("frameless")
           => Client(w') = Client(w) /\ Origin(w') = Origin(w)
    /\ w'.frameless # w.frameless /\ Client(w) \in MinClient .. (Work - Caption - MenuBar)
           => Client(w') = Client(w)

LEMMA FrameSame ==
    ASSUME FrameInv, UNCHANGED <<w, request, chain>>
    PROVE  FrameInv' /\ PictureStep
BY FrameKept DEF PictureStep

LEMMA FramePlaced ==
    ASSUME FrameInv, NEW x, Sits(x), SameFrame(x, w), Becomes(x), chain' = chain
    PROVE  FrameInv' /\ PictureStep
BY BecomesServed DEF PictureStep, SameFrame, Becomes

LEMMA FrameRevealed ==
    ASSUME FrameInv, NEW x, Sits(x), Client(x) = Client(w), Origin(x) = Origin(w),
           Becomes(x), chain' = chain
    PROVE  FrameInv' /\ PictureStep
BY BecomesServed DEF PictureStep, Becomes

LEMMA StepFrame ==
    ASSUME RestInv, FrameInv, Next
    PROVE  FrameInv' /\ PictureStep
<1>1. Sits(w) /\ Moded(w)
      BY SitsIsModed DEF FrameInv
<1>2. CASE \/ KeyDown \/ KeyDownH \/ KeyUpH \/ KeyMenu \/ RightClick
           \/ EnterSizeMove \/ ExitSizeMove \/ SetFocus \/ Pumped \/ CloseDialog
           \/ Open \/ ShowHideHelp
  <2>1. UNCHANGED <<w, request, chain>>
        BY <1>2 DEF KeyDown, KeyDownH, KeyUpH, KeyMenu, RightClick, EnterSizeMove,
                    ExitSizeMove, SetFocus, Pumped, CloseDialog, Open, ShowHideHelp, frame
  <2> QED BY <2>1, FrameSame
<1>3. CASE AltDown
  <2> DEFINE x == IF w.attached THEN w ELSE Revealed(w, TRUE)
  <2>1. Sits(x) /\ Client(x) = Client(w) /\ Origin(x) = Origin(w)
        BY <1>1, RevealedSits
  <2>2. Becomes(x) /\ chain' = chain
        BY <1>3 DEF AltDown
  <2> HIDE DEF x
  <2> QED BY <2>1, <2>2, FrameRevealed
<1>4. CASE ExitMenuLoop
  <2> DEFINE x == IF w.reveal THEN Revealed(w, FALSE) ELSE w
  <2>1. Sits(x) /\ Client(x) = Client(w) /\ Origin(x) = Origin(w)
        BY <1>1, RevealedSits
  <2>2. Becomes(x) /\ chain' = chain
        BY <1>4 DEF ExitMenuLoop
  <2> HIDE DEF x
  <2> QED BY <2>1, <2>2, FrameRevealed
<1>5. CASE KillFocus \/ ShowDialog
  <2> DEFINE x == IF focused /\ w.reveal /\ ~flagged THEN Revealed(w, FALSE) ELSE w
  <2>1. Sits(x) /\ Client(x) = Client(w) /\ Origin(x) = Origin(w)
        BY <1>1, RevealedSits
  <2>2. Becomes(x) /\ chain' = chain
        BY <1>5 DEF KillFocus, ShowDialog, Unfocused
  <2> HIDE DEF x
  <2> QED BY <2>1, <2>2, FrameRevealed
<1>6. CASE CycleMenuBarMode
  <2>1. Sits(Cycled(w)) /\ Client(Cycled(w)) = Client(w) /\ Origin(Cycled(w)) = Origin(w)
        BY <1>1, CycledSits
  <2>2. Becomes(Cycled(w)) /\ chain' = chain
        BY <1>6 DEF CycleMenuBarMode
  <2> QED BY <2>1, <2>2, FrameRevealed
<1>7. CASE SizeMove \/ DpiChanged
  <2>1. PICK y \in Int, c \in Contents : Becomes(Placed(w, y, c)) /\ chain' = chain
    <3>1. CASE SizeMove
          BY <3>1 DEF SizeMove
    <3>2. CASE DpiChanged
          BY <3>2 DEF DpiChanged
    <3> QED BY <1>7, <3>1, <3>2
  <2>2. c \in Int /\ c >= 1
        BY Sizes
  <2>3. Sits(Placed(w, y, c)) /\ SameFrame(Placed(w, y, c), w)
        BY <1>1, <2>2, PlacedSits
  <2> QED BY <2>1, <2>3, FramePlaced
<1>8. CASE FitWindow
  <2>1. Sits(Fitted(w)) /\ SameFrame(Fitted(w), w)
        BY <1>1, FittedSits
  <2>2. Becomes(Fitted(w)) /\ chain' = chain
        BY <1>8 DEF FitWindow
  <2> QED BY <2>1, <2>2, FramePlaced
<1>9. CASE HalfSizeWindow
  <2>1. PICK c \in Contents : Becomes(Halved(w, c)) /\ chain' = chain
        BY <1>9 DEF HalfSizeWindow
  <2>2. Sits(Halved(w, c)) /\ SameFrame(Halved(w, c), w)
        BY <1>1, HalvedSits
  <2> QED BY <2>1, <2>2, FramePlaced
<1>10. CASE ModalTick \/ Tick
  <2>1. Ticked
        BY <1>10 DEF ModalTick, Tick
  <2>2. FrameInv' /\ SameFrame(w', w)
        BY <2>1, TickedServed DEF RestInv
  <2> QED BY <2>2 DEF PictureStep, SameFrame
<1>11. CASE ToggleBorderlessFullscreen
  <2> DEFINE x == IF w.borderless THEN LeftFullscreen(w) ELSE EnteredFullscreen(w)
  <2>1. Due("fullscreen") /\ Becomes(x) /\ chain' = chain
        BY <1>11 DEF ToggleBorderlessFullscreen, Handled
  <2>2. saved.y \in Int /\ saved.h \in Int
        BY DEF RestInv
  <2>3. Sits(x) /\ x.frameless = w.frameless
        BY <1>1, <2>2, LeftSits, EnteredSits
  <2> HIDE DEF x
  <2>4. FrameInv' /\ w' = x
        BY <2>1, <2>3, BecomesServed DEF Becomes
  <2> QED BY <2>1, <2>3, <2>4 DEF PictureStep
<1>12. CASE ToggleFramelessWindowed
  <2>1. Due("frameless") /\ chain' = chain
        BY <1>12 DEF ToggleFramelessWindowed, Handled
  <2>2. CASE w.borderless
    <3>1. UNCHANGED <<w, request, chain>>
          BY <1>12, <2>2 DEF ToggleFramelessWindowed
    <3> QED BY <3>1, FrameSame
  <2>3. CASE ~w.borderless
    <3>1. Becomes(Reframed(w))
          BY <1>12, <2>3 DEF ToggleFramelessWindowed
    <3>2. /\ Sits(Reframed(w))
          /\ Client(w) \in MinClient .. (Work - Caption - MenuBar)
                 => Client(Reframed(w)) = Client(w)
          BY <1>1, <2>3, ReframedSits
    <3>3. FrameInv' /\ w' = Reframed(w)
          BY <2>1, <3>1, <3>2, BecomesServed DEF Becomes
    <3> QED BY <2>1, <3>2, <3>3 DEF PictureStep
  <2> QED BY <2>2, <2>3
<1> QED
  BY <1>2, <1>3, <1>4, <1>5, <1>6, <1>7, <1>8, <1>9, <1>10, <1>11, <1>12 DEF Next, Drain

LEMMA StepWindow ==
    ASSUME WindowInv, [Next]_vars
    PROVE  WindowInv' /\ PictureStep
<1>1. RestInv /\ FrameInv
      BY WindowInvParts
<1>2. CASE Next
  <2>1. RestInv' /\ FrameInv' /\ PictureStep
        BY <1>1, <1>2, StepRest, StepFrame
  <2> QED BY <2>1, WindowInvParts DEF WindowInv, RestInv, FrameInv, TypeOK, Sits
<1>3. CASE UNCHANGED vars
  <2>1. UNCHANGED <<w, request, chain>>
        BY <1>3 DEF vars, frame
  <2>2. FrameInv' /\ PictureStep
        BY <1>1, <2>1, FrameSame
  <2>3. RestInv'
        BY <1>1, <1>3 DEF vars, frame, modal, RestInv
  <2> QED BY <2>2, <2>3 DEF WindowInv, RestInv, FrameInv, TypeOK, Sits
<1> QED BY <1>2, <1>3

LEMMA InitWindow ==
    ASSUME Init
    PROVE  WindowInv
<1>1. PICK frameless \in BOOLEAN, visible \in BOOLEAN :
          LET docked == ~frameless /\ visible
              h == MinClient + 2 + Chrome(frameless, docked)
          IN  w = [y |-> 1, h |-> h, top |-> Chrome(frameless, docked), popup |-> FALSE,
                   borderless |-> FALSE, frameless |-> frameless, visible |-> visible,
                   reveal |-> FALSE, attached |-> docked]
      BY DEF Init
<1> DEFINE docked == ~frameless /\ visible
           t == Chrome(frameless, docked)
<1>2. t \in 0 .. 2
      BY ChromeBound
<1>3. docked \in BOOLEAN
      OBVIOUS
<1>4. /\ w.y = 1 /\ w.h = MinClient + 2 + t /\ w.top = t /\ w.popup = FALSE
      /\ w.borderless = FALSE /\ w.frameless = frameless /\ w.visible = visible
      /\ w.reveal = FALSE /\ w.attached = docked
      BY <1>1
<1>5. TopOf(w) = t
      BY <1>4 DEF TopOf, Chrome
<1>6. Docked(w) = docked
      BY <1>4 DEF Docked
<1>7. w \in WindowType
  <2> HIDE DEF t
  <2>1. /\ w = [y |-> 1, h |-> MinClient + 2 + t, top |-> t, popup |-> FALSE,
                borderless |-> FALSE, frameless |-> frameless, visible |-> visible,
                reveal |-> FALSE, attached |-> docked]
        BY <1>1 DEF t
  <2> QED BY <1>2, <1>3, <2>1, Sizes DEF WindowType
<1> HIDE DEF t, docked
<1>8. Drawn(w) /\ Client(w) = MinClient + 2
      BY <1>2, <1>4, <1>5, Sizes DEF Drawn, Client
<1>9. Sits(w)
      BY <1>4, <1>6, <1>7, <1>8 DEF Sits
<1>10. FrameInv
      BY <1>8, <1>9, Sizes DEF FrameInv, ResizeReaches, Init
<1>11. RestInv
  <2>1. /\ pc = "pump" /\ saved = [y |-> 0, h |-> 0, client |-> 0]
        /\ loop = "none" /\ flagged = FALSE /\ timer = FALSE /\ focused = TRUE
        /\ fresh = None /\ held = FALSE /\ help = FALSE /\ asked = None /\ messages = 0
        BY DEF Init
  <2>2. saved \in [y: Int, h: Int, client: Int]
        BY <2>1
  <2>3. messages \in 0 .. MaxMessages
        BY <2>1, Sizes
  <2> QED BY <2>1, <2>2, <2>3 DEF RestInv
<1> QED BY <1>10, <1>11, WindowInvParts

-----------------------------------------------------------------------------
(* The theorems.                                                            *)

\* In every state the window is drawn as its modes say, and the size of the swap chain
\* is the size of its client or is asked for (sync_app_menu, take_resize_request).
THEOREM WindowInvariant == Spec => []WindowInv
<1>1. Init => WindowInv
      BY InitWindow
<1>2. WindowInv /\ [Next]_vars => WindowInv'
      BY StepWindow
<1> QED BY <1>1, <1>2, PTL DEF Spec

\* No order of toggles, reveals and lost focus leaves the menu bar behind or loses it
\* (sync_app_menu, set_menu_reveal).
THEOREM MenuAlwaysFollows == Spec => []MenuFollowsState
<1>1. WindowInv => MenuFollowsState
      BY DEF WindowInv, FrameInv, Sits, MenuFollowsState
<1> QED BY <1>1, WindowInvariant, PTL

\* A size that changed, by the user's hand, a message, a command or a tick of its own, is
\* applied or awaited, whatever loop runs (WM_SIZE, take_resize_request).
THEOREM SizesReach == Spec => []SizeReaches
<1>1. WindowInv => SizeReaches
      BY DEF WindowInv, FrameInv, SizeReaches
<1> QED BY <1>1, WindowInvariant, PTL

\* The picture stays where and as large as it is while the menu bar comes and goes, and
\* as high while the frame does, wherever the work area has room for it
\* (window_position_preserving_client, toggle_frameless_windowed).
THEOREM PictureAlwaysStays == Spec => PictureStays
<1>1. WindowInv /\ [Next]_vars
          => [w'.attached # w.attached /\ ~Due("fullscreen") /\ ~Due("frameless")
                  => Client(w') = Client(w) /\ Origin(w') = Origin(w)]_vars
      BY StepWindow DEF PictureStep
<1>2. WindowInv /\ [Next]_vars
          => [w'.frameless # w.frameless
              /\ Client(w) \in MinClient .. (Work - Caption - MenuBar)
                  => Client(w') = Client(w)]_vars
      BY StepWindow DEF PictureStep
<1>3. Spec => ClientKept
      BY <1>1, WindowInvariant, PTL DEF Spec, ClientKept
<1>4. Spec => ReframeKeepsClient
      BY <1>2, WindowInvariant, PTL DEF Spec, ReframeKeepsClient
<1> QED BY <1>3, <1>4 DEF PictureStays

-----------------------------------------------------------------------------
(* Pointer: the inductive invariant, in named parts.                        *)

PointerKinds == {"down", "dbl", "caption", "up", "move"} \cup Keys
PointerMessage == [kind : PointerKinds, at : Places, ctrl : BOOLEAN, button : BOOLEAN]
InputKinds == Keys \cup {"full"}
User == [paused : BOOLEAN, owed : Places \cup {Nowhere}, home : Positions \cup {Nowhere},
         hasty : BOOLEAN, missed : BOOLEAN]

PointerTyped ==
    /\ PointerTypeOK
    /\ queue \in Seq(PointerMessage) /\ inputs \in Seq(InputKinds) /\ user \in User

\* The capture is that of a press or of a drag of the caption.
CaptureInv ==
    /\ win.pan => win.owned
    /\ win.captured <=> win.owned \/ win.caption

\* What takes in the queue q, or has taken, will be freed by a message behind it.
Ends(q, on, takes, frees) ==
    on \/ (\E n \in DOMAIN q : q[n] \in takes) =>
        \E n \in DOMAIN q :
            /\ q[n] \in frees
            /\ \A k \in DOMAIN q : k > n => q[k] \notin takes

Presses == {m \in PointerMessage : m.kind = "down"}
Releases == {m \in PointerMessage : m.kind = "up" \/ (m.kind = "move" /\ ~m.button)}
Takings == {m \in PointerMessage : m.kind \in {"down", "caption"}}
Ups == {m \in PointerMessage : m.kind = "up"}

\* With the hand off the button, what the window owns or is about to own has an end in the
\* queue: for a press a release or a move, for the capture a release.
EndsInv ==
    /\ ~hand.button /\ hand.at # "away" => Ends(queue, win.owned, Presses, Releases)
    /\ ~hand.button /\ ~user.missed => Ends(queue, win.captured, Takings, Ups)

\* A scrub was begun by a press the timeline saw, in a file that is not being opened, and
\* what is to come after a seek is forgotten when it has come.
ScrubInv ==
    /\ ui.scrubbing => ui.was
    /\ phase \in {"tick", "pump"} /\ ui.scrubbing => Known
    /\ session.state \in {"playing", "paused"} => ~session.after

\* What the user does beside moves, releases and Backspace. Who is not hasty does one such
\* thing at a time, with no gesture going on and no seek.
Loud(kind) == kind \notin {"up", "move", "back"}
LoudIn(q) == {n \in DOMAIN q : Loud(q[n].kind)}
LoudOf(q) == {n \in DOMAIN q : Loud(q[n])}
OneAtATime ==
    /\ \A n, k \in LoudIn(queue) : n = k
    /\ \A n, k \in LoudOf(inputs) : n = k
    /\ LoudIn(queue) # {} => LoudOf(inputs) = {}
    /\ LoudIn(queue) # {} \/ LoudOf(inputs) # {} =>
           ~ui.scrubbing /\ ~ui.was /\ ~win.owned /\ session.state # "seeking"
    /\ win.owned /\ ~ui.was => session.state # "seeking"

\* Whether s is paused, or will be once its seek has landed.
Will(s) == IF s.state \in {"playing", "paused"} THEN s.state = "paused" ELSE s.after

\* Out of a scrub the player does what was meant, or will; during a scrub the previews pause
\* it and the scrub knows what was meant; a file that is opening stays where the scrub began;
\* and where a drag was given up nothing moved.
Meant(s, u, h) ==
    /\ ~u.scrubbing => (Will(s) <=> h.paused)
    /\ u.scrubbing =>
           /\ Will(s) /\ s.known
           /\ u.preview # Nowhere /\ u.origin # Nowhere
           /\ u.wasPaused <=> h.paused
           /\ s.state = "opening" => s.position = u.origin
    /\ h.home # Nowhere => ~u.scrubbing /\ s.position = h.home

CalmInv ==
    ~user.hasty =>
        /\ OneAtATime
        /\ ui.scrubbing => ~win.borderless
        /\ Meant(session, ui, user)

PointerInv == PointerTyped /\ CaptureInv /\ EndsInv /\ ScrubInv /\ CalmInv

-----------------------------------------------------------------------------
(* Messages are posted behind the others and pumped from the front.         *)

LEMMA EndsAppended ==
    ASSUME NEW q \in Seq(PointerMessage), NEW m \in PointerMessage, NEW on \in BOOLEAN,
           NEW takes, NEW frees,
           m \notin takes, m \in frees \/ Ends(q, on, takes, frees)
    PROVE  Ends(Append(q, m), on, takes, frees)
<1> DEFINE r == Append(q, m)
<1>1. /\ Len(r) = Len(q) + 1 /\ r[Len(r)] = m /\ \A n \in 1 .. Len(q) : r[n] = q[n]
      /\ DOMAIN r = 1 .. Len(r) /\ DOMAIN q = 1 .. Len(q) /\ Len(q) \in Nat
      OBVIOUS
<1> HIDE DEF r
<1>2. CASE m \in frees
      BY <1>1, <1>2 DEF Ends
<1>3. CASE Ends(q, on, takes, frees) /\ m \notin frees
      <2> SUFFICES ASSUME on \/ \E n \in DOMAIN r : r[n] \in takes
                   PROVE  \E n \in DOMAIN r :
                              /\ r[n] \in frees
                              /\ \A k \in DOMAIN r : k > n => r[k] \notin takes
          BY DEF Ends
      <2>1. \A n \in DOMAIN r : n \in DOMAIN q \/ r[n] = m
            BY <1>1
      <2>2. on \/ \E n \in DOMAIN q : q[n] \in takes
            BY <1>1, <2>1
      <2>3. PICK n \in DOMAIN q :
                q[n] \in frees /\ \A k \in DOMAIN q : k > n => q[k] \notin takes
            BY <1>3, <2>2 DEF Ends
      <2>4. n \in DOMAIN r /\ r[n] \in frees
            BY <1>1, <2>3
      <2>5. \A k \in DOMAIN r : k > n => r[k] \notin takes
            BY <1>1, <2>1, <2>3
      <2> QED BY <2>4, <2>5
<1> QED BY <1>2, <1>3 DEF r

LEMMA EndsTail ==
    ASSUME NEW q \in Seq(PointerMessage), q # <<>>, NEW on \in BOOLEAN, NEW then \in BOOLEAN,
           NEW takes, NEW frees, takes \cap frees = {},
           Ends(q, on, takes, frees),
           then => Head(q) \in takes \/ (on /\ Head(q) \notin frees)
    PROVE  Ends(Tail(q), then, takes, frees)
<1> DEFINE r == Tail(q)
<1>1. /\ Len(r) = Len(q) - 1 /\ Len(q) \in Nat /\ Len(q) > 0
      /\ \A n \in 1 .. Len(r) : r[n] = q[n + 1]
      /\ DOMAIN r = 1 .. Len(r) /\ DOMAIN q = 1 .. Len(q) /\ Head(q) = q[1]
      OBVIOUS
<1> HIDE DEF r
<1> SUFFICES ASSUME then \/ \E n \in DOMAIN r : r[n] \in takes
             PROVE  \E n \in DOMAIN r : /\ r[n] \in frees
                                        /\ \A k \in DOMAIN r : k > n => r[k] \notin takes
    BY DEF Ends, r
<1>2. on \/ \E n \in DOMAIN q : q[n] \in takes
      BY <1>1
<1>3. PICK n \in DOMAIN q : q[n] \in frees /\ \A k \in DOMAIN q : k > n => q[k] \notin takes
      BY <1>2 DEF Ends
<1>4. n # 1
      <2> SUFFICES ASSUME n = 1 PROVE FALSE
          OBVIOUS
      <2>1. q[1] \in frees /\ q[1] \notin takes
            BY <1>3
      <2>2. \A k \in DOMAIN r : r[k] \notin takes
            BY <1>1, <1>3
      <2> QED BY <1>1, <2>1, <2>2
<1>5. n - 1 \in DOMAIN r /\ r[n - 1] = q[n]
      BY <1>1, <1>4
<1>6. \A k \in DOMAIN r : k > n - 1 => r[k] \notin takes
      <2> SUFFICES ASSUME NEW k \in DOMAIN r, k > n - 1 PROVE r[k] \notin takes
          OBVIOUS
      <2>1. k + 1 \in DOMAIN q /\ k + 1 > n /\ r[k] = q[k + 1]
            BY <1>1
      <2> QED BY <1>3, <2>1
<1> QED BY <1>3, <1>5, <1>6

LEMMA EndsRest ==
    ASSUME NEW q \in Seq(PointerMessage), NEW j \in 1 .. Len(q), NEW on \in BOOLEAN,
           NEW takes, NEW frees, takes \cap frees = {},
           Ends(q, on, takes, frees)
    PROVE  Ends(SubSeq(q, j + 1, Len(q)), FALSE, takes, frees)
<1> DEFINE r == SubSeq(q, j + 1, Len(q))
<1>1. /\ Len(r) = Len(q) - j /\ Len(q) \in Nat
      /\ \A n \in 1 .. Len(r) : r[n] = q[n + j]
      /\ DOMAIN r = 1 .. Len(r) /\ DOMAIN q = 1 .. Len(q)
      OBVIOUS
<1> HIDE DEF r
<1> SUFFICES ASSUME NEW i \in DOMAIN r, r[i] \in takes
             PROVE  \E n \in DOMAIN r : /\ r[n] \in frees
                                        /\ \A k \in DOMAIN r : k > n => r[k] \notin takes
    BY DEF Ends, r
<1>2. i + j \in DOMAIN q /\ q[i + j] \in takes
      BY <1>1
<1>3. PICK n \in DOMAIN q : q[n] \in frees /\ \A k \in DOMAIN q : k > n => q[k] \notin takes
      BY <1>2 DEF Ends
<1>4. n > i + j
      BY <1>1, <1>2, <1>3
<1>5. n - j \in DOMAIN r /\ r[n - j] = q[n]
      BY <1>1, <1>4
<1>6. \A k \in DOMAIN r : k > n - j => r[k] \notin takes
      <2> SUFFICES ASSUME NEW k \in DOMAIN r, k > n - j PROVE r[k] \notin takes
          OBVIOUS
      <2>1. k + j \in DOMAIN q /\ k + j > n /\ r[k] = q[k + j]
            BY <1>1
      <2> QED BY <1>3, <2>1
<1> QED BY <1>3, <1>5, <1>6

\* What is posted is a message, and it comes behind the others.
LEMMA PostedAppends ==
    ASSUME PointerTyped, hand'.at \in Places, hand'.ctrl \in BOOLEAN, hand'.button \in BOOLEAN,
           NEW kind \in PointerKinds, Posted(kind)
    PROVE  \E m \in PointerMessage : /\ m.kind = kind /\ m.button = hand'.button
                              /\ queue' = Append(queue, m)
<1> DEFINE m == [kind |-> kind, at |-> hand'.at, ctrl |-> hand'.ctrl, button |-> hand'.button]
<1>1. m \in PointerMessage /\ m.kind = kind /\ m.button = hand'.button
      BY DEF PointerMessage
<1>2. queue' = Append(queue, m)
      BY DEF Posted
<1> HIDE DEF m
<1> QED BY <1>1, <1>2

LEMMA AppendTypes ==
    ASSUME NEW S, NEW q \in Seq(S), NEW m \in S
    PROVE  /\ Append(q, m) \in Seq(S) /\ Len(Append(q, m)) = Len(q) + 1
           /\ DOMAIN Append(q, m) = DOMAIN q \cup {Len(q) + 1} /\ Len(q) + 1 \notin DOMAIN q
           /\ Append(q, m)[Len(q) + 1] = m
           /\ \A n \in DOMAIN q : Append(q, m)[n] = q[n]
OBVIOUS

LEMMA TailTypes ==
    ASSUME NEW S, NEW q \in Seq(S), q # <<>>
    PROVE  /\ Tail(q) \in Seq(S) /\ Len(Tail(q)) = Len(q) - 1 /\ Len(q) \in Nat \ {0}
           /\ Head(q) \in S /\ Head(q) = q[1] /\ 1 \in DOMAIN q
           /\ \A n \in DOMAIN Tail(q) :
                  n + 1 \in DOMAIN q /\ n \in Nat \ {0} /\ Tail(q)[n] = q[n + 1]
OBVIOUS

LEMMA RestTypes ==
    ASSUME NEW S, NEW q \in Seq(S), NEW j \in DOMAIN q
    PROVE  /\ SubSeq(q, j + 1, Len(q)) \in Seq(S) /\ Len(SubSeq(q, j + 1, Len(q))) = Len(q) - j
           /\ Len(q) \in Nat /\ j \in 1 .. Len(q)
           /\ \A n \in DOMAIN SubSeq(q, j + 1, Len(q)) :
                  n + j \in DOMAIN q /\ SubSeq(q, j + 1, Len(q))[n] = q[n + j]
OBVIOUS

\* At most one, at most one still, or none any more.
LEMMA LoudAppended ==
    ASSUME NEW q \in Seq(PointerMessage), NEW m \in PointerMessage
    PROVE  /\ ~Loud(m.kind) => LoudIn(Append(q, m)) = LoudIn(q)
           /\ q = <<>> => \A n, k \in LoudIn(Append(q, m)) : n = k
<1>1. q = <<>> => DOMAIN q = {}
      OBVIOUS
<1> QED BY <1>1, AppendTypes DEF LoudIn

LEMMA LoudTail ==
    ASSUME NEW q \in Seq(PointerMessage), q # <<>>, \A n, k \in LoudIn(q) : n = k
    PROVE  /\ \A n, k \in LoudIn(Tail(q)) : n = k
           /\ LoudIn(Tail(q)) # {} => LoudIn(q) # {} /\ ~Loud(Head(q).kind)
<1> DEFINE r == Tail(q)
<1>1. /\ \A n \in DOMAIN r : n + 1 \in DOMAIN q /\ n \in Nat \ {0} /\ r[n] = q[n + 1]
      /\ Head(q) = q[1] /\ 1 \in DOMAIN q
      BY TailTypes
<1> HIDE DEF r
<1>2. \A n \in LoudIn(r) : n + 1 \in LoudIn(q) /\ n \in Nat \ {0}
      BY <1>1 DEF LoudIn
<1>3. \A n, k \in LoudIn(r) : n = k
      <2> SUFFICES ASSUME NEW n \in LoudIn(r), NEW k \in LoudIn(r) PROVE n = k
          OBVIOUS
      <2>1. n + 1 = k + 1 /\ n \in Nat /\ k \in Nat
            BY <1>2
      <2> QED BY <2>1
<1>4. ASSUME LoudIn(r) # {}, Loud(Head(q).kind) PROVE FALSE
      <2>1. PICK n \in LoudIn(r) : n + 1 \in LoudIn(q) /\ n \in Nat \ {0}
            BY <1>2, <1>4
      <2>2. 1 \in LoudIn(q)
            BY <1>1, <1>4 DEF LoudIn
      <2>3. n + 1 = 1
            BY <2>1, <2>2
      <2> QED BY <2>1, <2>3
<1> QED BY <1>2, <1>3, <1>4 DEF r

LEMMA LoudRest ==
    ASSUME NEW q \in Seq(PointerMessage), NEW j \in DOMAIN q, \A n, k \in LoudIn(q) : n = k
    PROVE  LET r == SubSeq(q, j + 1, Len(q)) IN
           /\ \A n, k \in LoudIn(r) : n = k
           /\ LoudIn(r) # {} => LoudIn(q) # {}
<1> DEFINE r == SubSeq(q, j + 1, Len(q))
<1>1. /\ \A n \in DOMAIN r : n + j \in DOMAIN q /\ r[n] = q[n + j]
      /\ r \in Seq(PointerMessage) /\ j \in Nat
      BY RestTypes
<1> HIDE DEF r
<1>2. \A n \in LoudIn(r) : n + j \in LoudIn(q) /\ n \in Nat
      BY <1>1 DEF LoudIn
<1>3. \A n, k \in LoudIn(r) : n = k
      <2> SUFFICES ASSUME NEW n \in LoudIn(r), NEW k \in LoudIn(r) PROVE n = k
          OBVIOUS
      <2>1. n + j = k + j /\ n \in Nat /\ k \in Nat
            BY <1>2
      <2> QED BY <1>1, <2>1
<1> QED BY <1>2, <1>3 DEF r

LEMMA LoudInputAppended ==
    ASSUME NEW q \in Seq(InputKinds), NEW m \in InputKinds, LoudOf(q) = {}
    PROVE  /\ \A n, k \in LoudOf(Append(q, m)) : n = k
           /\ LoudOf(Append(q, m)) # {} => Loud(m)
BY AppendTypes DEF LoudOf

LEMMA QuietInputAppended ==
    ASSUME NEW q \in Seq(InputKinds), NEW m \in InputKinds, ~Loud(m)
    PROVE  LoudOf(Append(q, m)) = LoudOf(q)
BY AppendTypes DEF LoudOf

LEMMA LoudInputTail ==
    ASSUME NEW q \in Seq(InputKinds), q # <<>>, \A n, k \in LoudOf(q) : n = k
    PROVE  /\ \A n, k \in LoudOf(Tail(q)) : n = k
           /\ LoudOf(Tail(q)) # {} => LoudOf(q) # {} /\ ~Loud(Head(q))
           /\ Loud(Head(q)) => LoudOf(q) # {}
<1> DEFINE r == Tail(q)
<1>1. /\ \A n \in DOMAIN r : n + 1 \in DOMAIN q /\ n \in Nat \ {0} /\ r[n] = q[n + 1]
      /\ Head(q) = q[1] /\ 1 \in DOMAIN q
      BY TailTypes
<1> HIDE DEF r
<1>2. \A n \in LoudOf(r) : n + 1 \in LoudOf(q) /\ n \in Nat \ {0}
      BY <1>1 DEF LoudOf
<1>3. \A n, k \in LoudOf(r) : n = k
      <2> SUFFICES ASSUME NEW n \in LoudOf(r), NEW k \in LoudOf(r) PROVE n = k
          OBVIOUS
      <2>1. n + 1 = k + 1 /\ n \in Nat /\ k \in Nat
            BY <1>2
      <2> QED BY <2>1
<1>4. Loud(Head(q)) => 1 \in LoudOf(q)
      BY <1>1 DEF LoudOf
<1>5. ASSUME LoudOf(r) # {}, Loud(Head(q)) PROVE FALSE
      <2>1. PICK n \in LoudOf(r) : n + 1 \in LoudOf(q) /\ n \in Nat \ {0}
            BY <1>2, <1>5
      <2>2. n + 1 = 1
            BY <1>4, <1>5, <2>1
      <2> QED BY <2>1, <2>2
<1> QED BY <1>2, <1>3, <1>4, <1>5 DEF r

-----------------------------------------------------------------------------
(* What the window procedure makes of one message.                          *)

Hands == [button : BOOLEAN, ctrl : BOOLEAN, at : Places, prior : Places \cup {Nowhere},
          presses : 0..MaxPresses, moves : 0..MaxMoves, keys : 0..MaxKeys]
Wins == [owned : BOOLEAN, pan : BOOLEAN, caption : BOOLEAN, from : Places \cup {Nowhere},
         captured : BOOLEAN, borderless : BOOLEAN, frameless : BOOLEAN]
Timelines == [was : BOOLEAN, scrubbing : BOOLEAN, wasPaused : BOOLEAN,
              origin : Positions \cup {Nowhere}, preview : Positions \cup {Nowhere}]
Sessions == [state : {"opening", "playing", "paused", "seeking"}, after : BOOLEAN,
             position : Positions, known : BOOLEAN]

LEMMA PointerParts ==
    PointerTyped <=>
        /\ hand \in Hands /\ Len(queue) <= MaxQueue /\ phase \in {"pump", "input", "update", "tick"}
        /\ win \in Wins /\ ui \in Timelines /\ session \in Sessions
        /\ queue \in Seq(PointerMessage) /\ inputs \in Seq(InputKinds) /\ user \in User
BY DEF PointerTyped, PointerTypeOK, Hands, Wins, Timelines, Sessions

\* A press or what came before is owned, and a release or the hand's move without the button
\* ends it; the capture is taken by a press too, or by one on the caption.
LEMMA HandleOwns ==
    ASSUME PointerTyped, CaptureInv, NEW m \in PointerMessage
    PROVE  LET done == Handle(m) IN
           /\ done \in Wins /\ done.borderless = win.borderless
           /\ done.pan => done.owned
           /\ done.captured <=> done.owned \/ done.caption
           /\ done.owned => m \in Presses \/ (win.owned /\ m \notin Releases)
           /\ done.captured => m \in Takings \/ (win.captured /\ m \notin Ups)
           /\ Drags(m) => ~done.owned /\ ~done.captured
<1> DEFINE done == Handle(m)
<1>1. win \in Wins /\ hand.at \in Places \cup {Nowhere}
      BY PointerParts DEF Hands
<1>2. m.button \in BOOLEAN /\ m.ctrl \in BOOLEAN /\ m.kind \in PointerKinds
      BY DEF PointerMessage
<1>3. CASE m.kind = "down"
      <2>1. m \in Presses /\ m \in Takings /\ ~Drags(m)
            BY <1>3 DEF Presses, Takings, Drags
      <2>2. /\ done \in Wins /\ done.borderless = win.borderless
            /\ done.owned = TRUE /\ done.captured = TRUE
            BY <1>1, <1>2, <1>3 DEF Handle, Down, Wins
      <2> QED BY <2>1, <2>2
<1>4. CASE m.kind = "up"
      BY <1>1, <1>2, <1>4
         DEF Handle, Up, Dropped, Wins, CaptureInv, Presses, Releases, Takings, Ups, Drags
<1>5. CASE m.kind = "move"
      <2>1. /\ Dropped \in Wins /\ Dropped.borderless = win.borderless
            /\ ~Dropped.pan /\ ~Dropped.owned /\ ~Dropped.caption /\ ~Dropped.captured
            BY <1>1 DEF Dropped, Wins
      <2>2. done = Moved(m)
            BY <1>5 DEF Handle
      <2>3. CASE done = Dropped
            BY <2>1, <2>3
      <2>4. CASE done # Dropped
            <3>1. /\ done = win \/ done = [win EXCEPT !.pan = FALSE]
                  /\ win.owned => m.button
                  BY <2>2, <2>4 DEF Moved
            <3>2. ~Drags(m)
                  BY <2>2, <2>4 DEF Drags
            <3>3. m \notin Ups /\ (win.owned => m \notin Releases)
                  BY <1>5, <3>1 DEF Ups, Releases
            <3>4. /\ done \in Wins /\ done.borderless = win.borderless
                  /\ done.caption = win.caption /\ done.captured = win.captured
                  BY <1>1, <3>1 DEF Wins
            <3>5. done.owned = win.owned /\ (done.pan => win.pan)
                  BY <1>1, <3>1 DEF Wins
            <3> QED BY <3>2, <3>3, <3>4, <3>5 DEF CaptureInv
      <2> QED BY <2>3, <2>4
<1>6. CASE m.kind = "dbl"
      BY <1>1, <1>2, <1>6
         DEF Handle, Dropped, Wins, CaptureInv, Presses, Releases, Takings, Ups, Drags
<1>7. CASE m.kind = "caption"
      BY <1>1, <1>2, <1>7 DEF Handle, Wins, CaptureInv, Presses, Releases, Takings, Ups, Drags
<1>8. CASE m.kind \notin {"down", "up", "move", "dbl", "caption"}
      BY <1>1, <1>2, <1>8 DEF Handle, Wins, CaptureInv, Presses, Releases, Takings, Ups, Drags
<1> QED BY <1>3, <1>4, <1>5, <1>6, <1>7, <1>8

\* Only a loud message leaves a loud input, and no message leaves two.
LEMMA LeavesOne ==
    ASSUME PointerTyped, NEW m \in PointerMessage
    PROVE  \/ inputs \o Leaves(m) = inputs
           \/ \E k \in InputKinds : /\ inputs \o Leaves(m) = Append(inputs, k)
                                    /\ Loud(k) => Loud(m.kind) /\ m \notin Presses
<1>1. inputs \in Seq(InputKinds)
      BY PointerParts
<1>2. CASE ~IsMouse(m)
      <2>1. m.kind \in Keys /\ Leaves(m) = <<m.kind>>
            BY <1>2 DEF PointerMessage, PointerKinds, IsMouse, Leaves
      <2> DEFINE k == m.kind
      <2>2. k \in InputKinds
            BY <2>1 DEF InputKinds
      <2> HIDE DEF k
      <2>3. inputs \o <<k>> = Append(inputs, k)
            BY <1>1, <2>2
      <2>4. m \notin Presses
            BY <1>2 DEF Presses, IsMouse
      <2> QED BY <2>1, <2>2, <2>3, <2>4 DEF k
<1>3. CASE IsMouse(m) /\ m.kind = "dbl" /\ m.at \notin Strip
      <2>1. Leaves(m) = <<"full">> /\ "full" \in InputKinds /\ Loud(m.kind) /\ m \notin Presses
            BY <1>3 DEF Leaves, InputKinds, Loud, Presses
      <2>2. inputs \o <<"full">> = Append(inputs, "full")
            BY <1>1, <2>1
      <2> QED BY <2>1, <2>2
<1>4. CASE IsMouse(m) /\ ~(m.kind = "dbl" /\ m.at \notin Strip)
      <2>1. Leaves(m) = <<>>
            BY <1>4 DEF Leaves
      <2> QED BY <1>1, <2>1
<1> QED BY <1>2, <1>3, <1>4

\* A message leaves the queue by being handled, or with the move loop that begins with it;
\* the hand is as it was, or has let go in that loop.
LEMMA PumpTakes ==
    ASSUME PointerTyped, Pump
    PROVE  /\ queue # <<>> /\ Head(queue) \in PointerMessage
           /\ \/ /\ ~Drags(Head(queue))
                 /\ hand' = hand /\ queue' = Tail(queue)
              \/ /\ Drags(Head(queue)) /\ hand' = hand
                 /\ \E n \in DOMAIN Tail(queue) :
                        queue' = SubSeq(Tail(queue), n + 1, Len(Tail(queue)))
              \/ /\ Drags(Head(queue)) /\ hand' = [hand EXCEPT !.button = FALSE]
                 /\ queue' = <<>>
<1>1. queue \in Seq(PointerMessage) /\ queue # <<>>
      BY PointerParts DEF Pump
<1>2. Head(queue) \in PointerMessage
      BY <1>1, TailTypes
<1> QED BY <1>1, <1>2 DEF Pump, Dragged

LEMMA PumpTypes ==
    ASSUME PointerTyped, CaptureInv, Pump
    PROVE  PointerTyped' /\ CaptureInv'
<1> DEFINE m == Head(queue)
<1>1. /\ hand \in Hands /\ Len(queue) <= MaxQueue /\ queue \in Seq(PointerMessage)
      /\ inputs \in Seq(InputKinds) /\ ui \in Timelines /\ session \in Sessions /\ user \in User
      /\ phase = "pump" /\ queue # <<>> /\ MaxQueue \in Nat
      BY PointerParts, PointerConstants DEF Pump
<1>2. m \in PointerMessage
      BY <1>1, TailTypes
<1>3. win' = Handle(m) /\ inputs' = inputs \o Leaves(m) /\ UNCHANGED <<phase, ui, session, user>>
      BY DEF Pump
<1>4. win' \in Wins /\ CaptureInv'
      BY <1>2, <1>3, HandleOwns DEF CaptureInv
<1>5. inputs' \in Seq(InputKinds)
      <2>1. inputs' = inputs \/ \E k \in InputKinds : inputs' = Append(inputs, k)
            BY <1>2, <1>3, LeavesOne
      <2> QED BY <1>1, <2>1, AppendTypes
<1>6. hand' \in Hands
      BY <1>1, PumpTakes DEF Hands
<1>7. Tail(queue) \in Seq(PointerMessage) /\ Len(Tail(queue)) = Len(queue) - 1 /\ Len(queue) \in Nat
      BY <1>1, TailTypes
<1>8. queue' \in Seq(PointerMessage) /\ Len(queue') <= MaxQueue
      <2>1. CASE queue' = Tail(queue)
            BY <1>1, <1>7, <2>1
      <2>2. ASSUME NEW n \in DOMAIN Tail(queue),
                   queue' = SubSeq(Tail(queue), n + 1, Len(Tail(queue)))
            PROVE  queue' \in Seq(PointerMessage) /\ Len(queue') <= MaxQueue
            <3> DEFINE r == Tail(queue)
            <3>1. r \in Seq(PointerMessage) /\ Len(r) = Len(queue) - 1
                  BY <1>7
            <3> HIDE DEF r
            <3>2. n \in DOMAIN r /\ queue' = SubSeq(r, n + 1, Len(r))
                  BY <2>2 DEF r
            <3>3. queue' \in Seq(PointerMessage) /\ Len(queue') = Len(r) - n /\ n \in 1 .. Len(r)
                  BY <3>1, <3>2, RestTypes
            <3> QED BY <1>1, <1>7, <3>1, <3>3
      <2>3. CASE queue' = <<>>
            BY <1>1, <2>3
      <2> QED BY <2>1, <2>2, <2>3, PumpTakes
<1>9. phase' \in {"pump", "input", "update", "tick"}
      BY <1>1, <1>3
<1>10. /\ ui' \in Timelines /\ session' \in Sessions /\ user' \in User
      BY <1>1, <1>3
<1> QED BY <1>4, <1>5, <1>6, <1>8, <1>9, <1>10
        DEF PointerTyped, PointerTypeOK, Hands, Wins, Timelines, Sessions, User,
            PointerMessage, InputKinds, PointerKinds

-----------------------------------------------------------------------------
(* Types and capture, through every action.                                 *)

LEMMA SoughtTypes ==
    ASSUME NEW s \in Sessions, NEW target \in Positions, NEW after \in BOOLEAN
    PROVE  /\ Sought(s, target, after) \in Sessions
           /\ Sought(s, target, after).known = s.known
           /\ s.state # "opening" =>
                  /\ Sought(s, target, after).state = "seeking"
                  /\ Sought(s, target, after).after = after
                  /\ Sought(s, target, after).position = target
           /\ s.state = "opening" =>
                  /\ Sought(s, target, after).state = "opening"
                  /\ Sought(s, target, after).after = after
                  /\ Sought(s, target, after).position = s.position
BY DEF Sought, Sessions

LEMMA PlacesHold ==
    /\ Column \in Positions /\ Column # Nowhere /\ "here" \in Positions /\ Nowhere \notin Positions
    /\ Nowhere \notin Places
BY DEF Column, Positions, Strip, Nowhere, Places, ClientPlaces

LEMMA ToggledTypes ==
    ASSUME NEW s \in Sessions
    PROVE  /\ Toggled(s) \in Sessions
           /\ Toggled(s).state = "opening" <=> s.state = "opening"
           /\ s.state = "opening" => Toggled(s) = s
           /\ s.state = "playing" => Toggled(s).state = "paused" /\ Toggled(s).after = s.after
           /\ s.state = "paused" => \/ Toggled(s).state = "playing" /\ Toggled(s).after = s.after
                                    \/ Toggled(s).state = "seeking" /\ Toggled(s).after = FALSE
           /\ s.state = "seeking" => Toggled(s).state = "seeking"
<1>1. ResumeFrom(s.position) \in Positions /\ "here" \in Positions /\ s.position \in Positions
      BY PlacesHold DEF ResumeFrom, Sessions
<1>2. s.state \in {"opening", "playing", "paused", "seeking"}
      BY DEF Sessions
<1>3. CASE s.state = "opening"
      BY <1>3 DEF Toggled
<1>4. CASE s.state = "playing"
      BY <1>4 DEF Toggled, Sessions
<1>5. CASE s.state = "paused"
      BY <1>1, <1>5, SoughtTypes DEF Toggled, Sessions
<1>6. CASE s.state = "seeking"
      BY <1>1, <1>6, SoughtTypes DEF Toggled, Sessions
<1> QED BY <1>2, <1>3, <1>4, <1>5, <1>6

LEMMA HandTypes ==
    ASSUME PointerTyped, CaptureInv, Press \/ Release \/ Move \/ Ctrl \/ PressKey
    PROVE  PointerTyped' /\ CaptureInv'
<1>1. /\ hand \in Hands /\ Len(queue) <= MaxQueue /\ queue \in Seq(PointerMessage) /\ user \in User
      /\ MaxQueue \in Nat /\ MaxPresses \in Nat /\ MaxMoves \in Nat /\ MaxKeys \in Nat
      /\ Targets \subseteq Places /\ Len(queue) \in Nat
      BY PointerParts, PointerConstants DEF Places, ClientPlaces, Strip
<1>2. /\ UNCHANGED <<inputs, phase, win, ui, session>>
      BY DEF Press, Release, Move, Ctrl, PressKey
<1>3. hand' \in Hands /\ user' \in User
      <2>1. CASE Press
            <3>1. hand.presses + 1 \in 0 .. MaxPresses /\ hand.at \in Places
                  BY <1>1, <2>1 DEF Press, Hands
            <3>2. \E prior \in Places \cup {Nowhere} :
                      hand' = [hand EXCEPT !.button = TRUE, !.presses = hand.presses + 1,
                                           !.prior = prior]
                  BY <2>1, <3>1 DEF Press
            <3>3. hand' \in Hands
                  BY <1>1, <3>1, <3>2 DEF Hands
            <3> QED BY <1>1, <2>1, <3>1, <3>3 DEF Press, User
      <2>2. CASE Release
            BY <1>1, <2>2 DEF Release, Reaches, Hands, User
      <2>3. CASE Move
            <3>1. hand.moves + 1 \in 0 .. MaxMoves
                  <4>1. hand.moves \in 0 .. MaxMoves
                        BY <1>1 DEF Hands
                  <4>2. hand.moves < MaxMoves
                        BY <2>3 DEF Move
                  <4> QED BY <1>1, <4>1, <4>2
            <3>2. \E place \in Places :
                      hand' = [hand EXCEPT !.at = place, !.prior = Nowhere,
                                           !.moves = hand.moves + 1]
                  BY <1>1, <2>3 DEF Move
            <3>3. hand' \in Hands
                  BY <1>1, <3>1, <3>2 DEF Hands
            <3> QED BY <1>1, <2>3, <3>3 DEF Move
      <2>4. CASE Ctrl
            <3>1. hand.keys + 1 \in 0 .. MaxKeys /\ (~hand.ctrl) \in BOOLEAN
                  BY <1>1, <2>4 DEF Ctrl, Hands
            <3>2. hand' = [hand EXCEPT !.ctrl = ~hand.ctrl, !.keys = hand.keys + 1]
                  BY <2>4 DEF Ctrl
            <3>3. hand' \in Hands
                  BY <1>1, <3>1, <3>2 DEF Hands
            <3> QED BY <1>1, <2>4, <3>3 DEF Ctrl
      <2>5. CASE PressKey
            <3>1. hand.keys + 1 \in 0 .. MaxKeys
                  BY <1>1, <2>5 DEF PressKey, Hands
            <3>2. hand' = [hand EXCEPT !.keys = hand.keys + 1]
                  BY <2>5 DEF PressKey
            <3>3. hand' \in Hands
                  BY <1>1, <3>1, <3>2 DEF Hands
            <3> QED BY <1>1, <2>5, <3>3 DEF PressKey, User
      <2> QED BY <2>1, <2>2, <2>3, <2>4, <2>5
<1>4. \/ queue' = queue
      \/ Room /\ \E m \in PointerMessage : queue' = Append(queue, m)
      <2>1. hand'.at \in Places /\ hand'.ctrl \in BOOLEAN /\ hand'.button \in BOOLEAN
            BY <1>3 DEF Hands
      <2>2. CASE \E kind \in PointerKinds : Room /\ Posted(kind)
            BY <2>1, <2>2, PostedAppends
      <2>3. Press => \E kind \in PointerKinds : Room /\ Posted(kind)
            BY DEF Press, PointerKinds
      <2>4. Release => queue' = queue \/ \E kind \in PointerKinds : Room /\ Posted(kind)
            BY DEF Release, PointerKinds
      <2>5. Move => queue' = queue \/ \E kind \in PointerKinds : Room /\ Posted(kind)
            BY DEF Move, PointerKinds
      <2>6. Ctrl => queue' = queue
            BY DEF Ctrl
      <2>7. PressKey => \E kind \in PointerKinds : Room /\ Posted(kind)
            BY DEF PressKey, PointerKinds
      <2> QED BY <2>2, <2>3, <2>4, <2>5, <2>6, <2>7
<1>5. queue' \in Seq(PointerMessage) /\ Len(queue') <= MaxQueue
      <2>1. ASSUME NEW m \in PointerMessage, Room, queue' = Append(queue, m)
            PROVE  queue' \in Seq(PointerMessage) /\ Len(queue') <= MaxQueue
            BY <1>1, <2>1, AppendTypes DEF Room
      <2> QED BY <1>1, <1>4, <2>1
<1> QED BY <1>2, <1>3, <1>5
        DEF PointerTyped, PointerTypeOK, CaptureInv, Hands, Wins, Timelines, Sessions, User,
            PointerMessage, InputKinds, PointerKinds

LEMMA InputTypes ==
    ASSUME PointerTyped, CaptureInv, Input
    PROVE  PointerTyped' /\ CaptureInv'
<1>1. /\ win \in Wins /\ ui \in Timelines /\ session \in Sessions /\ user \in User
      /\ inputs \in Seq(InputKinds) /\ inputs # <<>>
      BY PointerParts DEF Input
<1>2. inputs' \in Seq(InputKinds) /\ UNCHANGED <<hand, queue, phase>>
      BY <1>1, TailTypes DEF Input
<1>3. win' \in Wins /\ ui' \in Timelines /\ session' \in Sessions /\ user' \in User /\ CaptureInv'
      <2>1. CASE CancelScrub
            <3>1. ui.origin = Nowhere \/ ui.origin \in Positions
                  BY <1>1 DEF Timelines
            <3>2. session' \in Sessions
                  BY <1>1, <2>1, <3>1, SoughtTypes DEF CancelScrub, Timelines
            <3> QED BY <1>1, <2>1, <3>1, <3>2
                    DEF CancelScrub, Cancelled, Timelines, User, CaptureInv, Wins
      <2>2. CASE Head(inputs) = "back" /\ ~ui.scrubbing /\ UNCHANGED <<win, ui, session, user>>
            BY <1>1, <2>2 DEF CaptureInv
      <2>3. CASE /\ Head(inputs) = "space"
                 /\ session' = Toggled(session)
                 /\ user' = [user EXCEPT !.paused = IF session.state = "opening" THEN @ ELSE ~@,
                                         !.home = Nowhere]
                 /\ UNCHANGED <<win, ui>>
            BY <1>1, <2>3, ToggledTypes DEF User, CaptureInv
      <2>4. CASE /\ Head(inputs) = "open"
                 /\ session' = OpenedAnother(session)
                 /\ user' = [user EXCEPT !.paused = FALSE, !.owed = Nowhere, !.home = Nowhere,
                                         !.hasty = @ \/ Forgotten]
                 /\ UNCHANGED <<win, ui>>
            <3>1. (user.hasty \/ Forgotten) \in BOOLEAN
                  OBVIOUS
            <3>2. user' \in User
                  BY <1>1, <2>4, <3>1 DEF User
            <3>3. session' \in Sessions
                  BY <1>1, <2>4, PlacesHold DEF OpenedAnother, Sessions
            <3> QED BY <1>1, <2>4, <3>2, <3>3 DEF CaptureInv
      <2>5. CASE /\ Head(inputs) = "full"
                 /\ win' = [win EXCEPT !.borderless = ~@]
                 /\ user' = [user EXCEPT !.owed = Nowhere]
                 /\ UNCHANGED <<ui, session>>
            BY <1>1, <2>5 DEF Wins, User, CaptureInv
      <2> QED BY <2>1, <2>2, <2>3, <2>4, <2>5 DEF Input
<1> QED BY <1>2, <1>3
        DEF PointerTyped, PointerTypeOK, Hands, Wins, Timelines, Sessions, User,
            PointerMessage, InputKinds, PointerKinds

LEMMA UpdateTypes ==
    ASSUME PointerTyped, CaptureInv, Update
    PROVE  PointerTyped' /\ CaptureInv'
<1>1. /\ win \in Wins /\ ui \in Timelines /\ session \in Sessions /\ user \in User
      BY PointerParts
<1>2. UNCHANGED <<hand, queue, inputs, win>> /\ phase' = "tick"
      BY DEF Update
<1>3. ui' \in Timelines /\ session' \in Sessions /\ user' \in User
      <2>1. CASE WithoutDuration
            BY <1>1, <2>1 DEF WithoutDuration, Timelines, Wins
      <2>2. CASE InFullScreen
            BY <1>1, <2>2 DEF InFullScreen, Over, Timelines, Wins
      <2>3. CASE StartScrub
            <3>1. session' \in Sessions
                  BY <1>1, <2>3, SoughtTypes, PlacesHold DEF StartScrub
            <3>2. session.position \in Positions /\ Column \in Positions
                  BY <1>1, PlacesHold DEF Sessions
            <3> QED BY <1>1, <2>3, <3>1, <3>2 DEF StartScrub, Timelines, User
      <2>4. CASE Drag
            <3> DEFINE target == IF InClient THEN Column ELSE ui.preview
            <3>1. /\ target \in Positions \cup {Nowhere}
                  /\ target # ui.preview => target \in Positions
                  BY <1>1, PlacesHold DEF Timelines
            <3>2. /\ ui' = [ui EXCEPT !.preview = target, !.was = TRUE]
                  /\ session' = IF target = ui.preview THEN session
                                ELSE Sought(session, target, TRUE)
                  /\ user' = user
                  BY <2>4 DEF Drag
            <3> HIDE DEF target
            <3>3. session' \in Sessions
                  BY <1>1, <3>1, <3>2, SoughtTypes
            <3> QED BY <1>1, <3>1, <3>2, <3>3 DEF Timelines
      <2>5. CASE Drop
            <3>1. session' \in Sessions
                  <4>1. Resumes => ui.preview \in Positions
                        BY <1>1 DEF Resumes, Timelines
                  <4> QED BY <1>1, <2>5, <4>1, SoughtTypes DEF Drop
            <3>2. InRange(ui.preview) \in BOOLEAN
                  BY DEF InRange
            <3> QED BY <1>1, <2>5, <3>1, <3>2 DEF Drop, Over, Timelines, User
      <2>6. CASE NoGesture
            BY <1>1, <2>6 DEF NoGesture, Timelines, Wins
      <2> QED BY <2>1, <2>2, <2>3, <2>4, <2>5, <2>6 DEF Update
<1> QED BY <1>2, <1>3
        DEF PointerTyped, PointerTypeOK, CaptureInv, Hands, Wins, Timelines, Sessions, User,
            PointerMessage, InputKinds, PointerKinds

\* Every step keeps the types and who has the capture.
LEMMA StepTypes ==
    ASSUME PointerTyped, CaptureInv, [PointerNext]_pointerVars
    PROVE  PointerTyped' /\ CaptureInv'
<1>1. CASE Press \/ Release \/ Move \/ Ctrl \/ PressKey
      BY <1>1, HandTypes
<1>2. CASE Steal
      <2>1. win \in Wins
            BY PointerParts
      <2>2. win' \in Wins /\ CaptureInv'
            BY <1>2, <2>1 DEF Steal, Wins, CaptureInv
      <2> QED BY <1>2, <2>2
              DEF Steal, PointerTyped, PointerTypeOK, Hands, Wins, Timelines, Sessions, User,
                  PointerMessage, InputKinds, PointerKinds
<1>3. CASE Pump
      BY <1>3, PumpTypes
<1>4. CASE Input
      BY <1>4, InputTypes
<1>5. CASE Update
      BY <1>5, UpdateTypes
<1>6. CASE SessionTick
      <2>1. session \in Sessions
            BY PointerParts
      <2>2. session' \in Sessions
            BY <1>6, <2>1 DEF SessionTick, Sessions
      <2> QED BY <1>6, <2>2
              DEF SessionTick, PointerTyped, PointerTypeOK, CaptureInv, Hands, Wins, Timelines,
                  Sessions, User, PointerMessage, InputKinds, PointerKinds
<1>7. CASE QueuePumped \/ InputsHandled \/ UNCHANGED pointerVars
      BY <1>7
         DEF QueuePumped, InputsHandled, pointerVars, PointerTyped, PointerTypeOK, CaptureInv,
             Hands, Wins, Timelines, Sessions, User, PointerMessage, InputKinds, PointerKinds
<1> QED BY <1>1, <1>2, <1>3, <1>4, <1>5, <1>6, <1>7 DEF PointerNext

-----------------------------------------------------------------------------
(* What was taken will be freed.                                            *)

LEMMA Disjoint == Presses \cap Releases = {} /\ Takings \cap Ups = {}
BY DEF Presses, Releases, Takings, Ups

\* The hand takes only with its button down, and has it up when it moves or lets go.
LEMMA HandEnds ==
    ASSUME PointerTyped, PointerTyped', EndsInv, Press \/ Release \/ Move \/ Ctrl \/ PressKey
    PROVE  EndsInv'
<1>1. /\ hand \in Hands /\ hand' \in Hands /\ queue \in Seq(PointerMessage) /\ win \in Wins
      /\ user \in User
      BY DEF PointerTyped, PointerTypeOK, Hands, Wins
<1>2. /\ hand'.at \in Places /\ hand'.ctrl \in BOOLEAN /\ hand'.button \in BOOLEAN
      /\ win.owned \in BOOLEAN /\ win.captured \in BOOLEAN
      BY <1>1 DEF Hands, Wins
<1>3. win' = win
      BY DEF Press, Release, Move, Ctrl, PressKey
<1>4. CASE Press
      <2>1. hand'.button
            BY <1>1, <1>4 DEF Press, Hands
      <2> QED BY <2>1 DEF EndsInv
<1>5. CASE Release
      <2>1. hand'.button = FALSE /\ hand'.at = hand.at /\ user'.missed = (~Reaches)
            BY <1>1, <1>5 DEF Release, Hands, User
      <2>2. CASE Reaches
            <3>1. PICK m \in PointerMessage : /\ m.kind = "up" /\ m.button = hand'.button
                                       /\ queue' = Append(queue, m)
                  BY <1>2, <1>5, <2>2, PostedAppends DEF Release, PointerKinds
            <3>2. m \in Releases /\ m \in Ups /\ m \notin Presses /\ m \notin Takings
                  BY <3>1 DEF Releases, Ups, Presses, Takings
            <3>3. /\ Ends(queue', win.owned, Presses, Releases)
                  /\ Ends(queue', win.captured, Takings, Ups)
                  BY <1>1, <1>2, <3>1, <3>2, EndsAppended
            <3> QED BY <1>3, <3>3 DEF EndsInv
      <2>3. CASE ~Reaches
            <3>1. hand'.at = "away" /\ user'.missed
                  BY <2>1, <2>3 DEF Reaches
            <3> QED BY <3>1 DEF EndsInv
      <2> QED BY <2>2, <2>3
<1>6. CASE Move
      <2>1. hand'.button = hand.button /\ user' = user
            BY <1>1, <1>6 DEF Move, Hands
      <2>2. CASE Reaches /\ ~hand.button
            <3>1. PICK m \in PointerMessage : /\ m.kind = "move" /\ m.button = hand'.button
                                       /\ queue' = Append(queue, m)
                  BY <1>2, <1>6, <2>2, PostedAppends DEF Move, PointerKinds
            <3>2. m \in Releases /\ m \notin Presses /\ m \notin Takings
                  BY <2>1, <2>2, <3>1 DEF Releases, Presses, Takings
            <3>3. Ends(queue', win.owned, Presses, Releases)
                  BY <1>1, <1>2, <3>1, <3>2, EndsAppended
            <3>4. ~user.missed => Ends(queue', win.captured, Takings, Ups)
                  BY <1>1, <1>2, <2>2, <3>1, <3>2, EndsAppended DEF EndsInv
            <3> QED BY <1>3, <2>1, <3>3, <3>4 DEF EndsInv
      <2>3. CASE ~Reaches
            <3>1. hand'.at = "away" /\ queue' = queue
                  BY <1>6, <2>3 DEF Move, Reaches
            <3> QED BY <1>3, <2>1, <3>1 DEF EndsInv
      <2>4. CASE hand.button
            BY <2>1, <2>4 DEF EndsInv
      <2> QED BY <2>2, <2>3, <2>4
<1>7. CASE Ctrl
      <2>1. hand'.button = hand.button /\ hand'.at = hand.at /\ queue' = queue /\ user' = user
            BY <1>1, <1>7 DEF Ctrl, Hands
      <2> QED BY <1>3, <2>1 DEF EndsInv
<1>8. CASE PressKey
      <2>1. /\ hand'.button = hand.button /\ hand'.at = hand.at /\ user'.missed = user.missed
            BY <1>1, <1>8 DEF PressKey, Hands, User
      <2>2. PICK kind \in Keys : Posted(kind)
            BY <1>8 DEF PressKey
      <2>3. PICK m \in PointerMessage : m.kind = kind /\ queue' = Append(queue, m)
            BY <1>2, <2>2, PostedAppends DEF PointerKinds
      <2>4. m \notin Presses /\ m \notin Takings
            BY <2>2, <2>3, PointerConstants DEF Presses, Takings
      <2> QED BY <1>1, <1>2, <1>3, <2>1, <2>3, <2>4, EndsAppended DEF EndsInv
<1> QED BY <1>4, <1>5, <1>6, <1>7, <1>8

LEMMA PumpEnds ==
    ASSUME PointerTyped, CaptureInv, EndsInv, Pump
    PROVE  EndsInv'
<1> DEFINE m == Head(queue)
           done == Handle(m)
           r == Tail(queue)
<1>1. hand \in Hands /\ queue \in Seq(PointerMessage) /\ win \in Wins /\ queue # <<>>
      BY PointerParts DEF Pump
<1>2. m \in PointerMessage /\ win' = done /\ user' = user
      BY <1>1, TailTypes DEF Pump
<1>3. /\ done \in Wins
      /\ done.owned => m \in Presses \/ (win.owned /\ m \notin Releases)
      /\ done.captured => m \in Takings \/ (win.captured /\ m \notin Ups)
      /\ Drags(m) => ~done.owned /\ ~done.captured
      BY <1>2, HandleOwns
<1>4. r \in Seq(PointerMessage)
      BY <1>1, TailTypes
<1>5. /\ done.owned \in BOOLEAN /\ done.captured \in BOOLEAN /\ win.owned \in BOOLEAN
      /\ win.captured \in BOOLEAN
      BY <1>1, <1>3 DEF Wins
<1> HIDE DEF done
<1>6. /\ Ends(queue, win.owned, Presses, Releases) => Ends(r, done.owned, Presses, Releases)
      /\ Ends(queue, win.captured, Takings, Ups) => Ends(r, done.captured, Takings, Ups)
      BY <1>1, <1>3, <1>5, EndsTail, Disjoint
<1> HIDE DEF r, m
<1>7. CASE ~Drags(m) /\ hand' = hand /\ queue' = r
      BY <1>2, <1>6, <1>7 DEF EndsInv
<1>8. ASSUME Drags(m), hand' = hand, NEW n \in DOMAIN r, queue' = SubSeq(r, n + 1, Len(r))
      PROVE  EndsInv'
      <2>1. n \in 1 .. Len(r)
            BY <1>4, <1>8
      <2>2. /\ Ends(r, done.owned, Presses, Releases) => Ends(queue', FALSE, Presses, Releases)
            /\ Ends(r, done.captured, Takings, Ups) => Ends(queue', FALSE, Takings, Ups)
            BY <1>4, <1>5, <1>8, <2>1, EndsRest, Disjoint
      <2>3. done.owned = FALSE /\ done.captured = FALSE
            BY <1>3, <1>5, <1>8
      <2> QED BY <1>2, <1>6, <1>8, <2>2, <2>3 DEF EndsInv
<1>9. CASE Drags(m) /\ queue' = <<>>
      <2>1. DOMAIN queue' = {} /\ ~done.owned /\ ~done.captured
            BY <1>3, <1>9
      <2> QED BY <1>2, <2>1 DEF EndsInv, Ends
<1> QED BY <1>7, <1>8, <1>9, PumpTakes DEF m, r

LEMMA StepEnds ==
    ASSUME PointerTyped, PointerTyped', CaptureInv, EndsInv, [PointerNext]_pointerVars
    PROVE  EndsInv'
<1>1. CASE Press \/ Release \/ Move \/ Ctrl \/ PressKey
      BY <1>1, HandEnds
<1>2. CASE Steal
      <2>1. win \in Wins /\ win' = Dropped /\ UNCHANGED <<hand, queue, user>>
            BY <1>2, PointerParts DEF Steal, Dropped
      <2>2. win'.owned = FALSE /\ win'.captured = FALSE
            BY <2>1 DEF Dropped, Wins
      <2>3. win.owned \in BOOLEAN /\ win.captured \in BOOLEAN
            BY <2>1 DEF Wins
      <2> QED BY <2>1, <2>2, <2>3 DEF EndsInv, Ends
<1>3. CASE Pump
      BY <1>3, PumpEnds
<1>4. CASE Input
      <2>1. UNCHANGED <<hand, queue>> /\ win \in Wins /\ user \in User
            BY <1>4, PointerParts DEF Input
      <2>2. win'.owned = win.owned /\ win'.captured = win.captured /\ user'.missed = user.missed
            BY <1>4, <2>1 DEF Input, CancelScrub, Wins, User
      <2> QED BY <2>1, <2>2 DEF EndsInv
<1>5. CASE Update
      <2>1. UNCHANGED <<hand, queue, win>> /\ user \in User
            BY <1>5, PointerParts DEF Update
      <2>2. user'.missed = user.missed
            BY <1>5, <2>1
               DEF Update, WithoutDuration, InFullScreen, StartScrub, Drag, Drop, NoGesture, User
      <2> QED BY <2>1, <2>2 DEF EndsInv
<1>6. CASE SessionTick \/ QueuePumped \/ InputsHandled \/ UNCHANGED pointerVars
      BY <1>6 DEF SessionTick, QueuePumped, InputsHandled, pointerVars, EndsInv
<1> QED BY <1>1, <1>2, <1>3, <1>4, <1>5, <1>6 DEF PointerNext

-----------------------------------------------------------------------------
(* Scrubs.                                                                  *)

LEMMA StepScrub ==
    ASSUME PointerTyped, ScrubInv, [PointerNext]_pointerVars
    PROVE  ScrubInv'
<1>1. /\ ui \in Timelines /\ session \in Sessions /\ win \in Wins
      /\ phase \in {"pump", "input", "update", "tick"}
      BY PointerParts
<1>2. session.state \in {"opening", "playing", "paused", "seeking"} /\ session.after \in BOOLEAN
      BY <1>1 DEF Sessions
<1>3. CASE Press \/ Release \/ Move \/ Ctrl \/ PressKey \/ Steal \/ Pump \/ UNCHANGED pointerVars
      <2>1. UNCHANGED <<phase, ui, session>>
            BY <1>3 DEF Press, Release, Move, Ctrl, PressKey, Steal, Pump, pointerVars
      <2> QED BY <2>1 DEF ScrubInv, Known
<1>4. CASE QueuePumped \/ InputsHandled
      <2>1. phase' \in {"input", "update"} /\ UNCHANGED <<ui, session>>
            BY <1>4 DEF QueuePumped, InputsHandled
      <2> QED BY <2>1 DEF ScrubInv
<1>5. CASE Input
      <2>1. phase' = "input" /\ inputs # <<>>
            BY <1>5 DEF Input
      <2>2. ui'.scrubbing => ui'.was
            BY <1>1, <1>5 DEF Input, CancelScrub, Cancelled, Timelines, ScrubInv
      <2>3. session'.state \in {"playing", "paused"} => ~session'.after
            <3>1. CASE session' = session
                  BY <3>1 DEF ScrubInv
            <3>2. CASE CancelScrub /\ session' = Sought(session, ui.origin, ui.wasPaused)
                  BY <1>1, <1>2, <3>2 DEF Sought, Sessions
            <3>3. CASE session' = Toggled(session)
                  BY <1>1, <1>2, <3>3, ToggledTypes DEF ScrubInv
            <3>4. CASE session' = OpenedAnother(session)
                  BY <1>1, <3>4 DEF OpenedAnother, Sessions
            <3> QED BY <1>5, <3>1, <3>2, <3>3, <3>4 DEF Input, CancelScrub
      <2> QED BY <2>1, <2>2, <2>3 DEF ScrubInv
<1>6. CASE Update
      <2>1. ui'.scrubbing => ui'.was /\ Known'
            <3>1. CASE WithoutDuration
                  BY <1>1, <3>1 DEF WithoutDuration, Timelines
            <3>2. CASE InFullScreen
                  BY <1>1, <3>2 DEF InFullScreen, Over, Timelines
            <3>3. CASE StartScrub
                  BY <1>1, <3>3 DEF StartScrub, Sought, Known
            <3>4. CASE Drag
                  <4>1. Known' /\ ui'.was
                        BY <1>1, <3>4 DEF Drag, Sought, Known, Timelines
                  <4> QED BY <4>1
            <3>5. CASE Drop
                  BY <1>1, <3>5 DEF Drop, Over, Timelines
            <3>6. CASE NoGesture
                  <4>1. ui'.scrubbing = ui.scrubbing /\ ui'.was = win.owned /\ Known'
                        BY <1>1, <3>6 DEF NoGesture, Timelines, Known
                  <4>2. ~ui.scrubbing
                        BY <1>1, <3>6 DEF NoGesture, Begins, ScrubInv
                  <4> QED BY <4>1, <4>2
            <3> QED BY <1>6, <3>1, <3>2, <3>3, <3>4, <3>5, <3>6 DEF Update
      <2>2. session'.state \in {"playing", "paused"} => ~session'.after
            <3>1. \/ session' = session
                  \/ \E target, after : session' = Sought(session, target, after)
                  BY <1>6 DEF Update, WithoutDuration, InFullScreen, StartScrub, Drag, Drop, NoGesture
            <3>2. ASSUME NEW target, NEW after, session' = Sought(session, target, after)
                  PROVE  session'.state \in {"opening", "seeking"}
                  <4>1. CASE session.state = "opening"
                        BY <1>1, <3>2, <4>1 DEF Sought, Sessions
                  <4>2. CASE session.state # "opening"
                        BY <1>1, <3>2, <4>2 DEF Sought, Sessions
                  <4> QED BY <4>1, <4>2
            <3> QED BY <3>1, <3>2 DEF ScrubInv
      <2> QED BY <2>1, <2>2 DEF ScrubInv
<1>7. CASE SessionTick
      BY <1>1, <1>2, <1>7 DEF SessionTick, Sessions, ScrubInv, Known
<1> QED BY <1>3, <1>4, <1>5, <1>6, <1>7 DEF PointerNext

-----------------------------------------------------------------------------
(* Who is not hasty is understood.                                          *)

\* Nothing loud is on its way when everything the user did was served.
LEMMA ServedIsQuiet ==
    ASSUME PointerTyped, Served
    PROVE  /\ queue = <<>> /\ LoudIn(queue) = {} /\ LoudOf(inputs) = {}
           /\ ~ui.scrubbing /\ ~ui.was /\ ~win.owned /\ session.state # "seeking"
BY DEF Served, Idle, LoudIn, LoudOf

LEMMA HandCalm ==
    ASSUME PointerTyped, PointerTyped', CalmInv, Press \/ Release \/ Move \/ Ctrl \/ PressKey
    PROVE  CalmInv'
<1>1. /\ hand \in Hands /\ hand' \in Hands /\ queue \in Seq(PointerMessage) /\ user \in User
      BY DEF PointerTyped, PointerTypeOK, Hands
<1>2. hand'.at \in Places /\ hand'.ctrl \in BOOLEAN /\ hand'.button \in BOOLEAN
      BY <1>1 DEF Hands
<1>3. UNCHANGED <<inputs, phase, win, ui, session>>
      BY DEF Press, Release, Move, Ctrl, PressKey
<1>4. /\ user'.paused = user.paused /\ (user'.hasty \in BOOLEAN) /\ (user.hasty => user'.hasty)
      /\ user'.home = user.home \/ user'.home = Nowhere
      BY <1>1 DEF Press, Release, Move, Ctrl, PressKey, User
<1> SUFFICES ASSUME ~user'.hasty, OneAtATime, ui.scrubbing => ~win.borderless,
                    Meant(session, ui, user)
             PROVE  CalmInv'
    BY <1>4 DEF CalmInv
<1>5. Meant(session', ui', user')
      BY <1>3, <1>4 DEF Meant
<1>6. ASSUME NEW m \in PointerMessage, queue' = Append(queue, m), ~Loud(m.kind) \/ Served
      PROVE  OneAtATime'
      <2>1. CASE ~Loud(m.kind)
            <3>1. LoudIn(queue') = LoudIn(queue)
                  BY <1>1, <1>6, <2>1, LoudAppended
            <3> QED BY <1>3, <3>1 DEF OneAtATime
      <2>2. CASE Served
            <3>1. \A n, k \in LoudIn(queue') : n = k
                  BY <1>1, <1>6, <2>2, LoudAppended, ServedIsQuiet
            <3> QED BY <1>3, <2>2, <3>1, ServedIsQuiet DEF OneAtATime
      <2> QED BY <1>6, <2>1, <2>2
<1>7. OneAtATime'
      <2>1. CASE queue' = queue
            BY <1>3, <2>1 DEF OneAtATime
      <2>2. CASE Press
            <3>1. Served
                  BY <1>1, <2>2 DEF Press, User
            <3>2. \E m \in PointerMessage : queue' = Append(queue, m)
                  BY <1>2, <2>2, PostedAppends DEF Press, PointerKinds
            <3> QED BY <1>6, <3>1, <3>2
      <2>3. CASE Release /\ Reaches
            <3>1. PICK m \in PointerMessage : m.kind = "up" /\ queue' = Append(queue, m)
                  BY <1>2, <2>3, PostedAppends DEF Release, PointerKinds
            <3> QED BY <1>6, <3>1 DEF Loud
      <2>4. CASE Move /\ Reaches
            <3>1. PICK m \in PointerMessage : m.kind = "move" /\ queue' = Append(queue, m)
                  BY <1>2, <2>4, PostedAppends DEF Move, PointerKinds
            <3> QED BY <1>6, <3>1 DEF Loud
      <2>5. CASE PressKey
            <3>1. PICK key \in Keys :
                      /\ Posted(key)
                      /\ user' = [user EXCEPT !.hasty = @ \/ (key # "back" /\ ~Served)]
                  BY <2>5 DEF PressKey
            <3>2. PICK m \in PointerMessage : m.kind = key /\ queue' = Append(queue, m)
                  BY <1>2, <3>1, PostedAppends DEF PointerKinds
            <3>3. key = "back" \/ Served
                  BY <1>1, <3>1 DEF User
            <3> QED BY <1>6, <3>2, <3>3 DEF Loud
      <2> QED BY <2>1, <2>2, <2>3, <2>4, <2>5 DEF Release, Move, Ctrl
<1> QED BY <1>3, <1>5, <1>7 DEF CalmInv

LEMMA PumpCalm ==
    ASSUME PointerTyped, CaptureInv, CalmInv, Pump
    PROVE  CalmInv'
<1> DEFINE m == Head(queue)
           done == Handle(m)
           r == Tail(queue)
<1>1. /\ queue \in Seq(PointerMessage) /\ win \in Wins /\ queue # <<>> /\ inputs \in Seq(InputKinds)
      BY PointerParts DEF Pump
<1>2. /\ m \in PointerMessage /\ win' = done /\ inputs' = inputs \o Leaves(m)
      /\ UNCHANGED <<phase, ui, session, user>>
      BY <1>1, TailTypes DEF Pump
<1>3. /\ done.borderless = win.borderless
      /\ done.owned => m \in Presses \/ (win.owned /\ m \notin Releases)
      BY <1>2, HandleOwns
<1>4. r \in Seq(PointerMessage) /\ Head(queue) = queue[1] /\ 1 \in DOMAIN queue
      BY <1>1, TailTypes
<1> SUFFICES ASSUME ~user.hasty, OneAtATime, ui.scrubbing => ~win.borderless,
                    Meant(session, ui, user)
             PROVE  CalmInv'
    BY <1>2 DEF CalmInv
<1>5. Loud(m.kind) => LoudIn(queue) # {}
      BY <1>4 DEF LoudIn
<1>6. /\ \A n, k \in LoudIn(r) : n = k
      /\ LoudIn(r) # {} => LoudIn(queue) # {} /\ ~Loud(m.kind)
      BY <1>1, LoudTail DEF OneAtATime
<1>7. m \in Presses => Loud(m.kind)
      BY DEF Presses, Loud
<1>8. \/ inputs' = inputs
      \/ \E k \in InputKinds : /\ inputs' = Append(inputs, k)
                               /\ Loud(k) => Loud(m.kind) /\ m \notin Presses
      BY <1>2, LeavesOne
<1> HIDE DEF done, m, r
<1>9. /\ \A n, k \in LoudIn(queue') : n = k
      /\ LoudIn(queue') # {} => LoudIn(r) # {}
      <2>1. CASE queue' = r
            BY <1>6, <2>1
      <2>2. ASSUME NEW n \in DOMAIN r, queue' = SubSeq(r, n + 1, Len(r))
            PROVE  /\ \A i, k \in LoudIn(queue') : i = k
                   /\ LoudIn(queue') # {} => LoudIn(r) # {}
            BY <1>4, <1>6, <2>2, LoudRest
      <2>3. CASE queue' = <<>>
            BY <2>3 DEF LoudIn
      <2> QED BY <2>1, <2>2, <2>3, PumpTakes DEF m, r
<1>10. /\ \A n, k \in LoudOf(inputs') : n = k
       /\ LoudOf(inputs') # {} => LoudOf(inputs) # {} \/ (Loud(m.kind) /\ m \notin Presses)
      <2>1. CASE inputs' = inputs
            BY <2>1 DEF OneAtATime
      <2>2. ASSUME NEW k \in InputKinds, inputs' = Append(inputs, k),
                   Loud(k) => Loud(m.kind) /\ m \notin Presses
            PROVE  /\ \A n, i \in LoudOf(inputs') : n = i
                   /\ LoudOf(inputs') # {}
                         => LoudOf(inputs) # {} \/ (Loud(m.kind) /\ m \notin Presses)
            <3>1. CASE ~Loud(k)
                  <4>1. LoudOf(inputs') = LoudOf(inputs)
                        BY <1>1, <2>2, <3>1, QuietInputAppended
                  <4> QED BY <4>1 DEF OneAtATime
            <3>2. CASE Loud(k)
                  <4>1. LoudOf(inputs) = {}
                        BY <1>5, <2>2, <3>2 DEF OneAtATime
                  <4> QED BY <1>1, <2>2, <3>2, <4>1, LoudInputAppended
            <3> QED BY <3>1, <3>2
      <2> QED BY <1>8, <2>1, <2>2
<1>11. LoudIn(queue') # {} => LoudOf(inputs') = {}
      BY <1>6, <1>9, <1>10 DEF OneAtATime
<1>12. LoudIn(queue') # {} \/ LoudOf(inputs') # {} =>
           ~ui.scrubbing /\ ~ui.was /\ ~done.owned /\ session.state # "seeking"
      BY <1>3, <1>5, <1>6, <1>7, <1>9, <1>10 DEF OneAtATime
<1>13. done.owned /\ ~ui.was => session.state # "seeking"
      BY <1>3, <1>5, <1>7 DEF OneAtATime
<1>14. OneAtATime'
      BY <1>2, <1>9, <1>10, <1>11, <1>12, <1>13 DEF OneAtATime
<1> QED BY <1>2, <1>3, <1>14 DEF CalmInv

LEMMA InputCalm ==
    ASSUME PointerTyped, CalmInv, ScrubInv, Input
    PROVE  CalmInv'
<1>1. /\ win \in Wins /\ ui \in Timelines /\ session \in Sessions /\ user \in User
      /\ inputs \in Seq(InputKinds) /\ inputs # <<>>
      BY PointerParts DEF Input
<1>2. inputs' = Tail(inputs) /\ UNCHANGED <<hand, queue, phase>>
      BY DEF Input
<1>3. user.hasty => user'.hasty
      BY <1>1 DEF Input, CancelScrub, User
<1> SUFFICES ASSUME ~user'.hasty, ~user.hasty, OneAtATime, ui.scrubbing => ~win.borderless,
                    Meant(session, ui, user)
             PROVE  CalmInv'
    BY <1>3 DEF CalmInv
<1>4. /\ \A n, k \in LoudOf(inputs') : n = k
      /\ LoudOf(inputs') # {} => LoudOf(inputs) # {} /\ ~Loud(Head(inputs))
      /\ Loud(Head(inputs)) => LoudOf(inputs) # {}
      BY <1>1, <1>2, LoudInputTail DEF OneAtATime
<1>5. win'.owned = win.owned /\ ui'.was = ui.was
      BY <1>1 DEF Input, CancelScrub, Cancelled, Wins, Timelines
\* Nothing is loud behind what is loud, and the scrub has seen the press that began it.
<1>6. ASSUME ui'.scrubbing => ui.scrubbing,
             \/ session' = session
             \/ Loud(Head(inputs))
             \/ ui.scrubbing
      PROVE  OneAtATime'
      <2>1. LoudIn(queue) # {} \/ LoudOf(inputs') # {} =>
                ~ui'.scrubbing /\ ~ui'.was /\ ~win'.owned /\ session'.state # "seeking"
            BY <1>4, <1>5, <1>6 DEF OneAtATime
      <2>2. win'.owned /\ ~ui'.was => session'.state # "seeking"
            BY <1>4, <1>5, <1>6 DEF OneAtATime, ScrubInv
      <2> QED BY <1>2, <1>4, <2>1, <2>2 DEF OneAtATime
<1>7. CASE CancelScrub
      <2>1. /\ session.state = "opening" => session.position = ui.origin
            /\ ui.origin # Nowhere /\ ui.scrubbing
            /\ ui.wasPaused <=> user.paused
            BY <1>7 DEF CancelScrub, Meant
      <2>2. /\ ui.origin \in Positions /\ ui.wasPaused \in BOOLEAN
            BY <1>1, <2>1 DEF Timelines
      <2>3. /\ session'.state \in {"seeking", "opening"} /\ session'.after = ui.wasPaused
            /\ session'.position = ui.origin
            BY <1>1, <1>7, <2>1, <2>2, SoughtTypes DEF CancelScrub
      <2>4. ui'.scrubbing = FALSE /\ user'.home = ui.origin /\ user'.paused = user.paused
            BY <1>1, <1>7 DEF CancelScrub, Cancelled, Timelines, User
      <2>5. Meant(session', ui', user')
            BY <2>1, <2>3, <2>4 DEF Meant, Will
      <2>6. OneAtATime'
            BY <1>6, <2>1, <2>4
      <2> QED BY <2>4, <2>5, <2>6 DEF CalmInv
<1>8. CASE Head(inputs) = "back" /\ ~ui.scrubbing /\ UNCHANGED <<win, ui, session, user>>
      <2>1. OneAtATime'
            BY <1>6, <1>8
      <2> QED BY <1>8, <2>1 DEF CalmInv
<1>9. CASE /\ Head(inputs) = "space"
           /\ session' = Toggled(session)
           /\ user' = [user EXCEPT !.paused = IF session.state = "opening" THEN @ ELSE ~@,
                                   !.home = Nowhere]
           /\ UNCHANGED <<win, ui>>
      <2>1. Loud(Head(inputs)) /\ ~ui.scrubbing /\ session.state # "seeking"
            BY <1>4, <1>9 DEF Loud, OneAtATime
      <2>2. /\ user'.paused = (IF session.state = "opening" THEN user.paused ELSE ~user.paused)
            /\ user'.home = Nowhere /\ ui' = ui
            BY <1>1, <1>9 DEF User
      <2>3. session.state \in {"opening", "playing", "paused", "seeking"}
            BY <1>1 DEF Sessions
      <2>4. Meant(session', ui', user')
            <3>1. Will(session) <=> user.paused
                  BY <2>1 DEF Meant
            <3>2. CASE session.state = "opening"
                  <4>1. session' = session /\ user'.paused = user.paused
                        BY <1>1, <1>9, <2>2, <3>2, ToggledTypes
                  <4> QED BY <2>1, <2>2, <3>1, <4>1 DEF Meant
            <3>3. CASE session.state \in {"playing", "paused"}
                  <4>1. /\ session'.state \in {"playing", "paused", "seeking"}
                        /\ Will(session') <=> ~Will(session)
                        BY <1>1, <1>9, <3>3, ToggledTypes DEF Will
                  <4>2. user'.paused = (~user.paused)
                        BY <2>2, <3>3
                  <4> QED BY <2>1, <2>2, <3>1, <4>1, <4>2 DEF Meant
            <3> QED BY <2>1, <2>3, <3>2, <3>3
      <2>5. OneAtATime'
            BY <1>6, <1>9, <2>1
      <2> QED BY <1>9, <2>1, <2>4, <2>5 DEF CalmInv
<1>10. CASE /\ Head(inputs) = "open"
            /\ session' = OpenedAnother(session)
            /\ user' = [user EXCEPT !.paused = FALSE, !.owed = Nowhere, !.home = Nowhere,
                                    !.hasty = @ \/ Forgotten]
            /\ UNCHANGED <<win, ui>>
      <2>1. Loud(Head(inputs)) /\ ~ui.scrubbing /\ session.state # "seeking"
            BY <1>4, <1>10 DEF Loud, OneAtATime
      <2>2. session.state \in {"opening", "playing", "paused"} /\ session.after = FALSE
        <3>1. ~Forgotten
              BY <1>1, <1>10 DEF User
        <3>2. session.state \in {"opening", "playing", "paused"} /\ session.after \in BOOLEAN
              BY <1>1, <2>1 DEF Sessions
        <3> QED BY <3>1, <3>2 DEF ScrubInv, Forgotten
      <2>3. /\ session'.state = "opening" /\ session'.after = FALSE
            /\ user'.paused = FALSE /\ user'.home = Nowhere /\ ui' = ui
            BY <1>1, <1>10, <2>2 DEF OpenedAnother, Sessions, User
      <2>4. Meant(session', ui', user')
            BY <2>1, <2>3 DEF Meant, Will
      <2>5. OneAtATime'
            BY <1>6, <1>10, <2>1
      <2> QED BY <1>10, <2>1, <2>4, <2>5 DEF CalmInv
<1>11. CASE /\ Head(inputs) = "full"
            /\ win' = [win EXCEPT !.borderless = ~@]
            /\ user' = [user EXCEPT !.owed = Nowhere]
            /\ UNCHANGED <<ui, session>>
      <2>1. Loud(Head(inputs)) /\ ~ui.scrubbing
            BY <1>4, <1>11 DEF Loud, OneAtATime
      <2>2. user'.paused = user.paused /\ user'.home = user.home
            BY <1>1, <1>11 DEF User
      <2>3. Meant(session', ui', user')
            BY <1>11, <2>2 DEF Meant
      <2>4. OneAtATime'
            BY <1>6, <1>11, <2>1
      <2> QED BY <1>11, <2>1, <2>3, <2>4 DEF CalmInv
<1> QED BY <1>7, <1>8, <1>9, <1>10, <1>11 DEF Input

LEMMA UpdateCalm ==
    ASSUME PointerTyped, CalmInv, ScrubInv, Update
    PROVE  CalmInv'
<1>1. /\ win \in Wins /\ ui \in Timelines /\ session \in Sessions /\ user \in User
      BY PointerParts
<1>2. UNCHANGED <<hand, queue, inputs, win>>
      BY DEF Update
<1>3. user.hasty => user'.hasty
      BY <1>1
         DEF Update, WithoutDuration, InFullScreen, StartScrub, Drag, Drop, NoGesture, User
<1> SUFFICES ASSUME ~user'.hasty, ~user.hasty, OneAtATime, ui.scrubbing => ~win.borderless,
                    Meant(session, ui, user)
             PROVE  CalmInv'
    BY <1>3 DEF CalmInv
<1>4. /\ session.state \in {"opening", "playing", "paused", "seeking"}
      /\ session.position \in Positions /\ ui.was \in BOOLEAN /\ win.owned \in BOOLEAN
      BY <1>1 DEF Sessions, Timelines, Wins
<1>5. ui'.was = win.owned
      <2>1. CASE WithoutDuration \/ InFullScreen \/ NoGesture
            BY <1>1, <2>1 DEF WithoutDuration, InFullScreen, NoGesture, Over, Timelines
      <2>2. CASE StartScrub
            <3>1. win.owned /\ ui'.was = TRUE
                  BY <2>2 DEF StartScrub, Begins
            <3> QED BY <1>4, <3>1
      <2>3. CASE Drag
            <3>1. win.owned /\ ui'.was = TRUE
                  BY <1>1, <2>3 DEF Drag, Timelines
            <3> QED BY <1>4, <3>1
      <2>4. CASE Drop
            <3>1. ~win.owned /\ ui'.was = FALSE
                  BY <1>1, <2>4 DEF Drop, Over, Timelines
            <3> QED BY <1>4, <3>1
      <2> QED BY <2>1, <2>2, <2>3, <2>4 DEF Update
\* Without a button there is no gesture, and nothing changes.
<1>6. ASSUME ~ui.scrubbing, ~ui.was, ~win.owned
      PROVE  ui'.scrubbing = FALSE /\ session' = session
      BY <1>1, <1>6
         DEF Update, WithoutDuration, InFullScreen, StartScrub, Begins, Drag, Drop, NoGesture,
             Over, Timelines
<1>7. OneAtATime'
      BY <1>2, <1>5, <1>6 DEF OneAtATime
<1>8. Meant(session', ui', user') /\ (ui'.scrubbing => ~win.borderless)
      <2>1. CASE WithoutDuration
            <3>1. ui'.scrubbing = FALSE /\ session' = session /\ user' = user /\ ~ui.scrubbing
                  BY <1>1, <2>1 DEF WithoutDuration, Timelines, Meant, Known
            <3> QED BY <3>1 DEF Meant
      <2>2. CASE InFullScreen
            <3>1. ui'.scrubbing = FALSE /\ session' = session /\ user' = user /\ ~ui.scrubbing
                  BY <1>1, <2>2 DEF InFullScreen, Over, Timelines
            <3> QED BY <3>1 DEF Meant
      <2>3. CASE StartScrub
            <3>1. /\ session.state # "seeking" /\ ~ui.scrubbing /\ ~win.borderless
                  BY <1>4, <2>3 DEF StartScrub, Begins, OneAtATime, ScrubInv
            <3>2. /\ ui'.scrubbing = TRUE /\ ui'.wasPaused = (session.state = "paused")
                  /\ ui'.origin = session.position
                  /\ ui'.origin # Nowhere /\ ui'.preview # Nowhere
                  BY <1>4, <2>3, PlacesHold DEF StartScrub
            <3>3. /\ session'.after = TRUE /\ session'.known
                  /\ \/ session'.state = "seeking"
                     \/ session'.state = "opening" /\ session'.position = session.position
                  BY <1>1, <2>3, <3>1, PlacesHold, SoughtTypes DEF StartScrub, Known
            <3>4. user'.paused = user.paused /\ user'.home = Nowhere
                  BY <1>1, <2>3 DEF StartScrub, User
            <3>5. ~Forgotten
                  BY <1>1, <2>3 DEF StartScrub, User
            <3>6. user.paused <=> session.state = "paused"
                  BY <1>4, <3>1, <3>5 DEF Forgotten, Meant, Will
            <3> QED BY <3>1, <3>2, <3>3, <3>4, <3>6 DEF Meant, Will
      <2>4. CASE Drag
            <3> DEFINE target == IF InClient THEN Column ELSE ui.preview
            <3>1. /\ ui' = [ui EXCEPT !.preview = target, !.was = TRUE]
                  /\ session' = IF target = ui.preview THEN session
                                ELSE Sought(session, target, TRUE)
                  /\ user' = user /\ ui.scrubbing /\ ~win.borderless
                  BY <2>4 DEF Drag
            <3>2. target \in Positions
                  BY <1>1, <3>1, PlacesHold DEF Timelines, Meant
            <3> HIDE DEF target
            <3>3. /\ ui'.scrubbing = TRUE /\ ui'.preview # Nowhere /\ ui'.origin = ui.origin
                  /\ ui'.wasPaused = ui.wasPaused
                  BY <1>1, <3>1, <3>2, PlacesHold DEF Timelines
            <3>4. \/ session' = session
                  \/ session'.state = "seeking" /\ session'.after = TRUE
                  \/ /\ session.state = "opening" /\ session'.state = "opening"
                     /\ session'.after = TRUE /\ session'.position = session.position
                  BY <1>1, <3>1, <3>2, SoughtTypes
            <3>6. session'.known
                  BY <1>1, <3>1, <3>2, SoughtTypes DEF Meant
            <3>5. Will(session') /\ (session'.state = "opening" => session'.position = ui.origin)
                  BY <3>1, <3>4 DEF Meant, Will
            <3> QED BY <3>1, <3>3, <3>5, <3>6 DEF Meant
      <2>5. CASE Drop
            <3>1. ui.scrubbing /\ ui.preview \in Positions
                  BY <1>1, <2>5 DEF Drop, Meant, Timelines
            <3>2. /\ ui'.scrubbing = FALSE /\ user'.home = user.home
                  /\ user'.paused = (user.paused \/ ~InRange(ui.preview))
                  BY <1>1, <2>5 DEF Drop, Over, Timelines, User
            <3>3. user.home = Nowhere
                  BY <3>1 DEF Meant
            <3>4. CASE Resumes
                  <4>1. session'.state \in {"seeking", "opening"} /\ session'.after = FALSE
                        BY <1>1, <2>5, <3>1, <3>4, SoughtTypes DEF Drop
                  <4>2. user'.paused = FALSE
                        BY <1>1, <3>1, <3>2, <3>4 DEF Resumes, Meant, User
                  <4> QED BY <3>2, <3>3, <4>1, <4>2 DEF Meant, Will
            <3>5. CASE ~Resumes
                  <4>1. session' = session
                        BY <2>5, <3>5 DEF Drop
                  <4>2. user'.paused = TRUE
                        BY <1>1, <3>1, <3>2, <3>5, PlacesHold DEF Resumes, Meant, User
                  <4> QED BY <3>1, <3>2, <3>3, <4>1, <4>2 DEF Meant
            <3> QED BY <3>4, <3>5
      <2>6. CASE NoGesture
            <3>1. /\ ui'.scrubbing = ui.scrubbing /\ ui'.origin = ui.origin
                  /\ ui'.preview = ui.preview /\ ui'.wasPaused = ui.wasPaused
                  /\ session' = session /\ user' = user
                  BY <1>1, <2>6 DEF NoGesture, Timelines
            <3> QED BY <3>1 DEF Meant
      <2> QED BY <2>1, <2>2, <2>3, <2>4, <2>5, <2>6 DEF Update
<1> QED BY <1>2, <1>7, <1>8 DEF CalmInv

LEMMA StepCalm ==
    ASSUME PointerTyped, PointerTyped', CaptureInv, ScrubInv, CalmInv, [PointerNext]_pointerVars
    PROVE  CalmInv'
<1>1. CASE Press \/ Release \/ Move \/ Ctrl \/ PressKey
      BY <1>1, HandCalm
<1>2. CASE Steal
      <2>1. win \in Wins /\ win' = Dropped /\ UNCHANGED <<queue, inputs, ui, session, user>>
            BY <1>2, PointerParts DEF Steal, Dropped
      <2>2. win'.owned = FALSE /\ win'.borderless = win.borderless
            BY <2>1 DEF Dropped, Wins
      <2> QED BY <2>1, <2>2 DEF CalmInv, OneAtATime
<1>3. CASE Pump
      BY <1>3, PumpCalm
<1>4. CASE Input
      BY <1>4, InputCalm
<1>5. CASE Update
      BY <1>5, UpdateCalm
<1>6. CASE SessionTick
      <2>1. session \in Sessions /\ UNCHANGED <<queue, inputs, win, ui, user>>
            BY <1>6, PointerParts DEF SessionTick
      <2>2. session.known => session'.known
            BY <1>6, <2>1 DEF SessionTick, Sessions
      <2>6. \/ /\ session'.state = session.state /\ session'.after = session.after
               /\ session'.position = session.position
            \/ /\ session.state \in {"seeking", "opening"} /\ session'.position = session.position
               /\ session'.state = IF session.after THEN "paused" ELSE "playing"
            BY <1>6, <2>1 DEF SessionTick, Sessions
      <2>3. Meant(session, ui, user) => Meant(session', ui, user)
            BY <2>1, <2>2, <2>6 DEF Meant, Will, Sessions
      <2>4. session.state # "seeking" => session'.state # "seeking"
            BY <2>6
      <2>5. OneAtATime => OneAtATime'
            BY <2>1, <2>4 DEF OneAtATime
      <2> QED BY <2>1, <2>3, <2>5 DEF CalmInv
<1>7. CASE QueuePumped \/ InputsHandled \/ UNCHANGED pointerVars
      BY <1>7 DEF QueuePumped, InputsHandled, pointerVars, CalmInv, OneAtATime
<1> QED BY <1>1, <1>2, <1>3, <1>4, <1>5, <1>6, <1>7 DEF PointerNext

-----------------------------------------------------------------------------
(* The theorems.                                                            *)

LEMMA InitPointer == PointerInit => PointerInv
<1> SUFFICES ASSUME PointerInit PROVE PointerInv
    OBVIOUS
<1>1. /\ MaxPresses \in Nat /\ MaxMoves \in Nat /\ MaxKeys \in Nat /\ MaxQueue \in Nat
      /\ Targets \subseteq Places
      BY PointerConstants DEF Places, ClientPlaces, Strip
<1>2. /\ queue = <<>> /\ inputs = <<>> /\ phase = "pump"
      /\ hand \in Hands /\ hand.button = FALSE
      BY <1>1 DEF PointerInit, Hands
<1>3. win \in Wins /\ win.owned = FALSE /\ win.pan = FALSE /\ win.caption = FALSE
      /\ win.captured = FALSE
      <2>1. PICK frameless \in BOOLEAN :
                win = [owned |-> FALSE, pan |-> FALSE, caption |-> FALSE, from |-> Nowhere,
                       captured |-> FALSE, borderless |-> FALSE, frameless |-> frameless]
            <3>1. (hand.at # "caption") \in BOOLEAN
                  OBVIOUS
            <3> QED BY <3>1 DEF PointerInit
      <2> QED BY <2>1 DEF Wins
<1>4. ui \in Timelines /\ ui.scrubbing = FALSE /\ ui.was = FALSE
      BY DEF PointerInit, Timelines
<1>5. PICK paused \in BOOLEAN :
          /\ session = [state |-> IF paused THEN "paused" ELSE "playing", after |-> FALSE,
                        position |-> "here", known |-> TRUE]
          /\ user = [paused |-> paused, owed |-> Nowhere, home |-> Nowhere, hasty |-> FALSE,
                     missed |-> FALSE]
      BY DEF PointerInit
<1>6. session \in Sessions /\ user \in User /\ session.after = FALSE
      BY <1>5, PlacesHold DEF Sessions, User
<1>7. /\ queue \in Seq(PointerMessage) /\ inputs \in Seq(InputKinds) /\ Len(queue) <= MaxQueue
      /\ DOMAIN queue = {} /\ DOMAIN inputs = {}
      BY <1>1, <1>2
<1>8. PointerTyped
      BY <1>2, <1>3, <1>4, <1>6, <1>7, PointerParts
<1>9. Meant(session, ui, user)
      BY <1>4, <1>5 DEF Meant, Will
<1>10. OneAtATime
      BY <1>3, <1>4, <1>5, <1>7 DEF OneAtATime, LoudIn, LoudOf
<1>11. CaptureInv /\ EndsInv /\ ScrubInv
      BY <1>3, <1>4, <1>6, <1>7 DEF CaptureInv, EndsInv, Ends, ScrubInv
<1> QED BY <1>4, <1>8, <1>9, <1>10, <1>11 DEF PointerInv, CalmInv

\* The invariant of Pointer is one: for any number of presses, moves and keys, and any
\* number of messages waiting.
THEOREM PointerInvariant == PointerSpec => []PointerInv
<1>1. PointerInit => PointerInv
      BY InitPointer
<1>2. PointerInv /\ [PointerNext]_pointerVars => PointerInv'
      <2> SUFFICES ASSUME PointerInv, [PointerNext]_pointerVars PROVE PointerInv'
          OBVIOUS
      <2>1. PointerTyped /\ CaptureInv /\ EndsInv /\ ScrubInv /\ CalmInv
            BY DEF PointerInv
      <2>2. PointerTyped' /\ CaptureInv'
            BY <2>1, StepTypes
      <2>3. EndsInv' /\ ScrubInv' /\ CalmInv'
            BY <2>1, <2>2, StepEnds, StepScrub, StepCalm
      <2> QED BY <2>2, <2>3 DEF PointerInv
<1> QED BY <1>1, <1>2, PTL DEF PointerSpec

\* Playing or paused, the player is as a user who is not hasty left it, and a drag that was
\* given up moved nothing (timeline_ui.rs:37-127).
THEOREM GesturesAreServed == PointerSpec => []GestureServed
<1>1. PointerInv => GestureServed
      <2> SUFFICES ASSUME PointerInv PROVE GestureServed
          OBVIOUS
      <2>1. PointerTypeOK /\ CalmInv
            BY DEF PointerInv, PointerTyped
      <2>2. AtRest /\ ~user.hasty =>
                /\ session.state \in {"playing", "paused"} /\ ~ui.scrubbing
                /\ Meant(session, ui, user)
            BY <2>1 DEF AtRest, Idle, CalmInv
      <2>3. IntentKept /\ CancelHolds
            BY <2>2 DEF IntentKept, CancelHolds, Meant, Will
      <2> QED BY <2>1, <2>3 DEF GestureServed
<1> QED BY <1>1, PointerInvariant, PTL

\* No gesture goes on without the button that began it, wherever it was let go
\* (dxgi.rs:2605-2731).
THEOREM GesturesEnd == PointerSpec => []NoGestureLeft
<1>1. PointerInv => NoGestureLeft
      <2> SUFFICES ASSUME PointerInv PROVE NoGestureLeft
          OBVIOUS
      <2>1. CaptureInv /\ EndsInv /\ ScrubInv
            BY DEF PointerInv
      <2>2. queue = <<>> => DOMAIN queue = {}
            OBVIOUS
      <2>3. LetGo
            BY <2>1, <2>2 DEF LetGo, CaptureInv, EndsInv, Ends
      <2>4. ScrubsWithButton
            BY <2>1 DEF ScrubsWithButton, ScrubInv
      <2> QED BY <2>3, <2>4 DEF NoGestureLeft
<1> QED BY <1>1, PointerInvariant, PTL
=============================================================================
