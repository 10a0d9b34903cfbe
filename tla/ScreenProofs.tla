------------------------------- MODULE ScreenProofs --------------------------------
(***************************************************************************)
(* What is proved of the picture's way from the decoder to the screen.     *)
(*                                                                         *)
(* Of Screen, for any files of the modelled kinds, channels of any         *)
(* capacity and any number of commands and faults: every picture goes its  *)
(* own way, and what is believed to be on screen is there and made of the  *)
(* device that lives.                                                      *)
(*                                                                         *)
(* Of HdrMetadata, in the second half, for any number of files, seeks and  *)
(* events: an SDR chain is never told of HDR, a record is never mixed of   *)
(* two, and what a chain was told is never of an earlier file.             *)
(***************************************************************************)
EXTENDS Screen, HdrMetadata, TLAPS

-----------------------------------------------------------------------------
(* The inductive invariant, in named parts.                                 *)

Frames == [mode : Modes, age : Ages]
Chains == {NoChain} \cup [kind : Kinds, age : Ages]
Pictures == {NoPicture} \cup Frames
Queues == {<<>>} \cup {<<f>> : f \in Frames}
Events ==
    [kind : {"path"}, value : Paths] \cup [kind : {"frame"}, value : Modes]
    \cup [kind : {"mode", "duration", "sound", "fail", "lost"}, value : BOOLEAN]
Workers == [phase : {"none", "opening", "running", "parked", "retired"}, sent : 0 .. 3,
            late : BOOLEAN, hdr : BOOLEAN, soft : BOOLEAN]

Player ==
    [state : {"idle", "opening", "seeking", "playing", "error"}, file : Files \cup {"none"},
     path : Paths, chain : Chains, picture : Pictures, queue : Queues, shown : BOOLEAN,
     present : BOOLEAN, overlay : [Overlays -> Ages \cup {"none"}], cue : BOOLEAN,
     drawn : BOOLEAN, known : BOOLEAN, told : Paths \cup {"none"}, soft : BOOLEAN,
     worker : Workers, events : Seq(Events), raced : BOOLEAN,
     shot : {"none", "pending", "taken"}]

Typed(q) == q \in Player /\ Len(q.events) <= MaxEvents

\* A chain is of the kind of its path.
ChainFits(q) == q.chain = NoChain \/ q.chain.kind = KindFor(q.path)

\* The mode of a picture is that of the file.
GoesWith(mode, file) == mode = "plain" <=> TagsOf(file).transfer \in {"bt709"}
PictureFits(q) ==
    /\ q.picture # NoPicture => GoesWith(q.picture.mode, q.file)
    /\ \A i \in DOMAIN q.queue : GoesWith(q.queue[i].mode, q.file)
    /\ \A i \in DOMAIN q.events : q.events[i].kind = "frame" => GoesWith(q.events[i].value, q.file)

Lives(q) ==
    /\ q.chain.age = "live" /\ q.picture.age = "live"
    /\ \A i \in DOMAIN q.queue : q.queue[i].age = "live"
    /\ \A n \in {"subtitle", "timeline", "volume"} : q.overlay[n] # "stale"

\* The path, or the duration, was heard before the event n, or is in front of it.
Before(q, n, kind) == \E i \in 1 .. n - 1 : q.events[i].kind = kind
PathBefore(q, n) == q.told # "none" \/ Before(q, n, "path")
DurationBefore(q, n) == q.known \/ Before(q, n, "duration")

\* Without a race path and duration are in front of the frames, and of those to come.
InOrder(q) ==
    LET next == Len(q.events) + 1 IN
    ~q.raced =>
        /\ \A n \in DOMAIN q.events :
               q.events[n].kind = "frame" => PathBefore(q, n) /\ DurationBefore(q, n)
        /\ q.queue # <<>> => q.told # "none" /\ q.known
        /\ q.worker.phase \in {"running", "parked"}
               => PathBefore(q, next) /\ DurationBefore(q, next)
        /\ q.worker.phase = "opening" /\ q.worker.sent > 0 /\ q.file # "sound"
               => PathBefore(q, next)
        /\ q.worker.late => q.told # "none" /\ q.known

\* What was superseded has left the channel, and an open is not announced further than it goes.
Sent(q) ==
    /\ q.worker.late => q.events = <<>> /\ q.queue = <<>>
    /\ q.worker.phase = "opening" => q.worker.sent < Len(Announced(q.file, q.worker.hdr))

CueLives(q) == q.state # "error" /\ q.cue => q.overlay.subtitle = "live"

ErrorIsLast(q) ==
    q.state = "error" =>
        q.picture = NoPicture /\ q.queue = <<>> /\ q.events = <<>> /\ q.worker = NoWorker

PlayerInv(q) ==
    /\ Typed(q) /\ ChainFits(q) /\ PictureFits(q) /\ Lives(q)
    /\ InOrder(q) /\ Sent(q) /\ CueLives(q) /\ ErrorIsLast(q)

-----------------------------------------------------------------------------
(* The presenter's helpers.                                                 *)

LEMMA Empties ==
    /\ <<>> \in Seq(Events) /\ Len(<<>>) <= MaxEvents /\ <<>> \in Queues
    /\ NoPicture \in Pictures /\ NoChain \in Chains /\ NoChain.age = "live"
    /\ NoPicture.age = "live"
    /\ NoWorker \in Workers
<1>1. MaxEvents \in Nat
      BY ScreenConstants DEF ScreenConstants
<1>2. <<>> \in Seq(Events) /\ Len(<<>>) <= MaxEvents
      BY <1>1
<1> QED BY <1>2 DEF Queues, Pictures, Chains, NoPicture, NoChain, NoWorker, Workers

\* Everything but what is drawn.
SameDecoding(r, q) ==
    /\ r.state = q.state /\ r.file = q.file /\ r.known = q.known /\ r.told = q.told
    /\ r.soft = q.soft /\ r.worker = q.worker /\ r.raced = q.raced

LEMMA SurfacesResetKeeps ==
    ASSUME NEW q, Typed(q)
    PROVE  LET r == SurfacesReset(q) IN
           /\ Typed(r) /\ SameDecoding(r, q)
           /\ r.path = q.path /\ r.chain = q.chain /\ r.shot = q.shot
           /\ r.events = q.events /\ r.cue = q.cue
           /\ r.picture = NoPicture /\ r.queue = <<>>
           /\ \A n \in {"subtitle", "timeline", "volume"} : r.overlay[n] = "none"
<1> DEFINE o == [n \in Overlays |->
                    IF n \in {"subtitle", "timeline", "volume"} THEN "none" ELSE q.overlay[n]]
           r == SurfacesReset(q)
<1>1. q \in Player /\ Len(q.events) <= MaxEvents
      BY DEF Typed
<1>2. q.overlay \in [Overlays -> Ages \cup {"none"}]
      BY <1>1 DEF Player
<1>3. /\ o \in [Overlays -> Ages \cup {"none"}]
      /\ \A n \in {"subtitle", "timeline", "volume"} : o[n] = "none"
      BY <1>2 DEF Overlays
<1>4. r = [q EXCEPT !.picture = NoPicture, !.queue = <<>>, !.overlay = o]
      BY <1>1 DEF SurfacesReset, Player
<1> HIDE DEF o, r
<1>5. /\ r \in Player /\ r.picture = NoPicture /\ r.queue = <<>> /\ r.overlay = o
      /\ r.events = q.events /\ r.cue = q.cue
      /\ r.path = q.path /\ r.chain = q.chain /\ r.shot = q.shot
      BY <1>1, <1>3, <1>4, Empties DEF Player
<1>6. SameDecoding(r, q)
      BY <1>1, <1>4 DEF Player, SameDecoding
<1> QED BY <1>1, <1>3, <1>5, <1>6 DEF Typed, r

LEMMA PreparedKeeps ==
    ASSUME NEW q, Typed(q), NEW wipe \in BOOLEAN
    PROVE  LET r == Prepared(q, wipe) IN
           /\ Typed(r) /\ SameDecoding(r, q)
           /\ r.path = q.path /\ r.chain = q.chain /\ r.shot = q.shot
           /\ r.queue = <<>> /\ r.events = <<>> /\ r.cue = FALSE
           /\ r.picture \in {q.picture, NoPicture} /\ (wipe => r.picture = NoPicture)
           /\ r.overlay["subtitle"] = "none"
           /\ \A n \in {"timeline", "volume"} :
                  /\ r.overlay[n] \in {q.overlay[n], "none"}
                  /\ wipe => r.overlay[n] = "none"
<1> DEFINE s == IF wipe THEN SurfacesReset(q) ELSE q
           r == Prepared(q, wipe)
<1>1. /\ Typed(s) /\ SameDecoding(s, q)
      /\ s.path = q.path /\ s.chain = q.chain /\ s.shot = q.shot
      /\ s.picture \in {q.picture, NoPicture} /\ (wipe => s.picture = NoPicture)
      /\ \A n \in {"timeline", "volume"} :
             /\ s.overlay[n] \in {q.overlay[n], "none"}
             /\ wipe => s.overlay[n] = "none"
      BY SurfacesResetKeeps DEF SameDecoding
<1>2. r = [s EXCEPT !.queue = <<>>, !.events = <<>>, !.overlay.subtitle = "none", !.cue = FALSE]
      BY DEF Prepared
<1> HIDE DEF s, r
<1>3. s \in Player
      BY <1>1 DEF Typed
<1>4. s.overlay \in [Overlays -> Ages \cup {"none"}] /\ "subtitle" \in Overlays
      BY <1>3 DEF Player, Overlays
<1> DEFINE o == [s.overlay EXCEPT !["subtitle"] = "none"]
<1>5. /\ o \in [Overlays -> Ages \cup {"none"}] /\ o["subtitle"] = "none"
      /\ \A n \in {"timeline", "volume"} : o[n] = s.overlay[n]
      BY <1>4 DEF Overlays
<1>6. r = [s EXCEPT !.queue = <<>>, !.events = <<>>, !.overlay = o, !.cue = FALSE]
      BY <1>2, <1>3 DEF Player
<1> HIDE DEF o
<1>7. /\ r \in Player /\ r.queue = <<>> /\ r.events = <<>> /\ r.overlay = o /\ r.cue = FALSE
      /\ r.path = s.path /\ r.chain = s.chain /\ r.shot = s.shot /\ r.picture = s.picture
      BY <1>3, <1>5, <1>6, Empties DEF Player
<1>8. SameDecoding(r, s)
      BY <1>3, <1>6 DEF Player, SameDecoding
<1>9. SameDecoding(r, q)
      BY <1>1, <1>8 DEF SameDecoding
<1>10. Typed(r)
      BY <1>7, Empties DEF Typed
<1>11. \A n \in {"timeline", "volume"} :
           /\ r.overlay[n] \in {q.overlay[n], "none"}
           /\ wipe => r.overlay[n] = "none"
      BY <1>1, <1>5, <1>7
<1> QED BY <1>1, <1>5, <1>7, <1>9, <1>10, <1>11 DEF r

LEMMA AnnouncedIsLong ==
    ASSUME NEW file, NEW hdr
    PROVE  2 <= Len(Announced(file, hdr)) /\ Len(Announced(file, hdr)) <= 3
BY DEF Announced

\* A player with nothing on the way yet.
Empty(q) ==
    /\ Typed(q) /\ ChainFits(q) /\ q.chain.age = "live"
    /\ q.picture = NoPicture /\ q.queue = <<>> /\ q.events = <<>>
    /\ \A n \in {"subtitle", "timeline", "volume"} : q.overlay[n] # "stale"

LEMMA EmptyStands ==
    ASSUME NEW q, Empty(q),
           \/ q.state = "error" /\ q.worker = NoWorker
           \/ /\ q.state # "error" /\ ~q.cue
              /\ q.worker.phase \in {"none", "opening"} /\ q.worker.sent = 0 /\ ~q.worker.late
    PROVE  PlayerInv(q)
<1>1. /\ Typed(q) /\ ChainFits(q) /\ q.chain.age = "live" /\ NoPicture.age = "live"
      /\ q.picture = NoPicture /\ q.queue = <<>> /\ q.events = <<>>
      /\ \A n \in {"subtitle", "timeline", "volume"} : q.overlay[n] # "stale"
      BY Empties DEF Empty
<1>2. DOMAIN q.queue = {} /\ DOMAIN q.events = {}
      BY <1>1
<1>3. PictureFits(q) /\ Lives(q)
      BY <1>1, <1>2 DEF PictureFits, Lives
<1>4. /\ q.worker.phase \in {"none", "opening"} /\ q.worker.sent = 0 /\ ~q.worker.late
      BY DEF NoWorker
<1>5. Sent(q)
  <2>1. 2 <= Len(Announced(q.file, q.worker.hdr))
        BY AnnouncedIsLong
  <2>2. q.worker.sent < Len(Announced(q.file, q.worker.hdr))
        BY ONLY <1>4, <2>1
  <2> QED BY <1>4, <2>2 DEF Sent
<1>6. InOrder(q)
      BY <1>1, <1>2, <1>4 DEF InOrder
<1>7. CueLives(q) /\ ErrorIsLast(q)
      BY <1>1 DEF CueLives, ErrorIsLast
<1> QED BY <1>1, <1>3, <1>5, <1>6, <1>7 DEF PlayerInv

\* A worker starts on the file.
LEMMA SpawnedKeeps ==
    ASSUME NEW q, Typed(q), display \subseteq DisplayBits, NEW dead \in BOOLEAN
    PROVE  LET r == Spawned(q, dead) IN
           /\ Typed(r)
           /\ r.worker.phase = "opening" /\ r.worker.sent = 0 /\ r.worker.late = FALSE
           /\ r.told = "none" /\ r.raced = FALSE
           /\ r.state = q.state /\ r.file = q.file /\ r.path = q.path /\ r.chain = q.chain
           /\ r.picture = q.picture /\ r.queue = q.queue /\ r.events = q.events
           /\ r.overlay = q.overlay /\ r.cue = q.cue /\ r.shot = q.shot
<1> DEFINE w == [NoWorker EXCEPT !.phase = "opening", !.soft = q.soft, !.hdr = Capable(q, dead)]
           r == Spawned(q, dead)
<1>1. q \in Player /\ q.soft \in BOOLEAN
      BY DEF Typed, Player
<1>2. Capable(q, dead) \in BOOLEAN
      BY DEF Capable, ShaderViews
<1>3. w \in Workers /\ w.phase = "opening" /\ w.sent = 0 /\ w.late = FALSE
  <2>1. NoWorker \in Workers /\ NoWorker.sent = 0 /\ NoWorker.late = FALSE
        BY Empties DEF NoWorker
  <2> DEFINE c == Capable(q, dead)
  <2>2. c \in BOOLEAN /\ w = [NoWorker EXCEPT !.phase = "opening", !.soft = q.soft, !.hdr = c]
        BY <1>2
  <2> HIDE DEF c, w
  <2> QED BY <1>1, <2>1, <2>2 DEF Workers
<1>4. r = [q EXCEPT !.worker = w, !.told = "none", !.raced = FALSE]
      BY DEF Spawned
<1> HIDE DEF w, r
<1>5. /\ r \in Player /\ r.worker = w /\ r.told = "none" /\ r.raced = FALSE
      /\ r.events = q.events
      BY <1>1, <1>3, <1>4 DEF Player
<1>6. /\ r.state = q.state /\ r.file = q.file /\ r.path = q.path /\ r.chain = q.chain
      /\ r.picture = q.picture /\ r.queue = q.queue
      /\ r.overlay = q.overlay /\ r.cue = q.cue /\ r.shot = q.shot
      BY <1>1, <1>4 DEF Player
<1> QED BY <1>3, <1>5, <1>6 DEF Typed, r

(* An operation begins with nothing of the one before.                      *)
LEMMA BegunStands ==
    ASSUME NEW q, Typed(q), ChainFits(q), q.chain.age = "live", display \subseteq DisplayBits,
           NEW state \in {"opening", "seeking"}, NEW dead \in BOOLEAN
    PROVE  LET r == Begun(q, state, dead) IN
           PlayerInv(r) /\ r.shot = q.shot /\ r.chain = q.chain
<1> DEFINE s == Prepared(q, TRUE)
           t == [s EXCEPT !.state = state]
           r == Begun(q, state, dead)
<1>1. /\ Typed(s) /\ SameDecoding(s, q)
      /\ s.path = q.path /\ s.chain = q.chain /\ s.shot = q.shot
      /\ s.queue = <<>> /\ s.events = <<>> /\ s.cue = FALSE /\ s.picture = NoPicture
      /\ \A n \in {"subtitle", "timeline", "volume"} : s.overlay[n] = "none"
  <2>1. /\ Typed(s) /\ SameDecoding(s, q)
        /\ s.path = q.path /\ s.chain = q.chain /\ s.shot = q.shot
        /\ s.queue = <<>> /\ s.events = <<>> /\ s.cue = FALSE
        /\ TRUE => s.picture = NoPicture
        /\ s.overlay["subtitle"] = "none"
        /\ \A n \in {"timeline", "volume"} : TRUE => s.overlay[n] = "none"
        BY PreparedKeeps
  <2> HIDE DEF s
  <2> QED BY <2>1
<1>2. r = Spawned(t, dead)
      BY DEF Begun
<1> HIDE DEF s, r
<1>3. /\ t \in Player /\ t.state = state
      /\ t.path = s.path /\ t.chain = s.chain /\ t.shot = s.shot
      /\ t.queue = s.queue /\ t.events = s.events /\ t.cue = s.cue /\ t.picture = s.picture
      /\ t.overlay = s.overlay
      BY <1>1, SMTT(30) DEF Typed, Player
<1> HIDE DEF t
<1>4. Typed(t)
      BY <1>1, <1>3 DEF Typed
<1>5. /\ Typed(r)
      /\ r.worker.phase = "opening" /\ r.worker.sent = 0 /\ r.worker.late = FALSE
      /\ r.state = t.state /\ r.path = t.path /\ r.chain = t.chain
      /\ r.picture = t.picture /\ r.queue = t.queue /\ r.events = t.events
      /\ r.overlay = t.overlay /\ r.cue = t.cue /\ r.shot = t.shot
      BY <1>2, <1>4, SpawnedKeeps, ZenonT(60)
<1>6. ChainFits(r)
      BY <1>1, <1>3, <1>5 DEF ChainFits
<1>7. Empty(r)
      BY <1>1, <1>3, <1>5, <1>6 DEF Empty
<1>8. PlayerInv(r)
      BY <1>1, <1>3, <1>5, <1>7, EmptyStands
<1> QED BY <1>1, <1>3, <1>5, <1>8 DEF r

(* An error leaves nothing to be drawn.                                     *)
LEMMA FailedStands ==
    ASSUME NEW q, Typed(q), ChainFits(q), q.chain.age = "live"
    PROVE  PlayerInv(Failed(q)) /\ Failed(q).shot = q.shot
<1> DEFINE s == SurfacesReset(q)
           r == Failed(q)
<1>1. /\ Typed(s)
      /\ s.path = q.path /\ s.chain = q.chain /\ s.shot = q.shot
      /\ s.picture = NoPicture /\ s.queue = <<>>
      /\ \A n \in {"subtitle", "timeline", "volume"} : s.overlay[n] = "none"
      BY SurfacesResetKeeps
<1>2. r = [s EXCEPT !.state = "error", !.worker = NoWorker, !.events = <<>>]
      BY DEF Failed
<1> HIDE DEF s, r
<1>3. /\ r \in Player /\ r.state = "error" /\ r.worker = NoWorker /\ r.events = <<>>
      /\ r.path = s.path /\ r.chain = s.chain /\ r.shot = s.shot
      /\ r.queue = s.queue /\ r.picture = s.picture /\ r.overlay = s.overlay
      BY <1>1, <1>2, Empties, ZenonT(60) DEF Typed, Player
<1>4. Typed(r) /\ ChainFits(r)
      BY <1>1, <1>3, Empties DEF Typed, ChainFits
<1>5. Empty(r)
      BY <1>1, <1>3, <1>4 DEF Empty
<1> QED BY <1>1, <1>3, <1>5, EmptyStands DEF r

\* What a chain that comes or goes leaves alone.
SameBehind(r, q) ==
    /\ SameDecoding(r, q)
    /\ r.picture = q.picture /\ r.queue = q.queue /\ r.events = q.events
    /\ r.overlay = q.overlay /\ r.cue = q.cue /\ r.shot = q.shot

LEMMA ChainIsFit ==
    ASSUME NEW path \in Paths, NEW dead \in BOOLEAN
    PROVE  /\ Chain(path) \in Chains /\ Chain(path).kind = KindFor(path)
           /\ Chain(path).age = "live"
           /\ SdrChain(dead) \in Chains /\ SdrChain(dead).age = "live"
           /\ SdrChain(dead) = NoChain \/ SdrChain(dead).kind = KindFor("sdr")
BY DEF Chain, SdrChain, Chains, Kinds, KindFor, Ages, NoChain, Paths

\* A player with another path and chain.
WithChain(q, path, made) == [q EXCEPT !.path = path, !.chain = made]

LEMMA ChainSet ==
    ASSUME NEW q, Typed(q), NEW path \in Paths, NEW made \in Chains
    PROVE  LET r == WithChain(q, path, made) IN
           Typed(r) /\ SameBehind(r, q) /\ r.path = path /\ r.chain = made
<1> DEFINE r == WithChain(q, path, made)
<1>1. q \in Player /\ Len(q.events) <= MaxEvents
      BY DEF Typed
<1>2. r \in Player /\ r.path = path /\ r.chain = made /\ SameBehind(r, q)
      BY <1>1 DEF Player, SameBehind, SameDecoding, WithChain
<1> QED BY <1>1, <1>2 DEF Typed, SameBehind

LEMMA PathSame ==
    ASSUME NEW q, Typed(q)
    PROVE  /\ q.path \in Paths /\ q.chain \in Chains
           /\ \A path : [q EXCEPT !.path = path] = WithChain(q, path, q.chain)
           /\ \A made : [q EXCEPT !.chain = made] = WithChain(q, q.path, made)
BY DEF Typed, Player, WithChain

LEMMA SwappedKeeps ==
    ASSUME NEW q, Typed(q), q.chain.age = "live", NEW path \in Paths, removed \in BOOLEAN
    PROVE  LET r == Swapped(q, path) IN
           /\ Typed(r) /\ SameBehind(r, q) /\ ChainFits(r) /\ r.chain.age = "live"
<1> DEFINE r == Swapped(q, path)
<1>1. /\ Chain(path) \in Chains /\ Chain(path).kind = KindFor(path) /\ Chain(path).age = "live"
      /\ SdrChain(removed) \in Chains /\ SdrChain(removed).age = "live"
      /\ SdrChain(removed) = NoChain \/ SdrChain(removed).kind = KindFor("sdr")
      /\ "sdr" \in Paths
      BY ChainIsFit DEF Paths
<1>2. PICK at \in Paths, made \in Chains :
          /\ r = WithChain(q, at, made)
          /\ made = NoChain \/ made.kind = KindFor(at)
          /\ made.age = "live"
  <2>1. CASE q.chain.kind = KindFor(path)
    <3>1. r = WithChain(q, path, q.chain) /\ q.chain \in Chains
          BY <2>1, PathSame DEF Swapped
    <3> QED BY <2>1, <3>1
  <2>2. CASE q.chain.kind # KindFor(path) /\ Makes(path, removed)
        BY <1>1, <2>2 DEF Swapped, WithChain
  <2>3. CASE q.chain.kind # KindFor(path) /\ ~Makes(path, removed)
        BY <1>1, <2>3 DEF Swapped, WithChain
  <2> QED BY <2>1, <2>2, <2>3
<1> HIDE DEF r
<1>3. Typed(r) /\ SameBehind(r, q) /\ r.path = at /\ r.chain = made
      BY <1>2, ChainSet
<1> QED BY <1>2, <1>3 DEF ChainFits, r

LEMMA RebuiltKeeps ==
    ASSUME NEW q, Typed(q), NEW dead \in BOOLEAN
    PROVE  LET r == Rebuilt(q, dead) IN
           /\ Typed(r) /\ SameBehind(r, q) /\ ChainFits(r) /\ r.chain.age = "live"
<1> DEFINE r == Rebuilt(q, dead)
<1>1. q.path \in Paths /\ "sdr" \in Paths
      BY PathSame DEF Paths
<1>2. /\ Chain(q.path) \in Chains /\ Chain(q.path).kind = KindFor(q.path)
      /\ Chain(q.path).age = "live"
      /\ SdrChain(dead) \in Chains /\ SdrChain(dead).age = "live"
      /\ SdrChain(dead) = NoChain \/ SdrChain(dead).kind = KindFor("sdr")
      BY <1>1, ChainIsFit
<1>3. PICK at \in Paths, made \in Chains :
          /\ r = WithChain(q, at, made)
          /\ made = NoChain \/ made.kind = KindFor(at)
          /\ made.age = "live"
  <2>1. CASE Makes(q.path, dead)
    <3>1. r = WithChain(q, q.path, Chain(q.path))
          BY <2>1, PathSame DEF Rebuilt
    <3> QED BY <1>1, <1>2, <3>1
  <2>2. CASE ~Makes(q.path, dead)
        BY <1>1, <1>2, <2>2 DEF Rebuilt, WithChain
  <2> QED BY <2>1, <2>2
<1> HIDE DEF r
<1>4. Typed(r) /\ SameBehind(r, q) /\ r.path = at /\ r.chain = made
      BY <1>3, ChainSet
<1> QED BY <1>3, <1>4 DEF ChainFits, r

LEMMA OnNewDeviceKeeps ==
    ASSUME NEW q, Typed(q)
    PROVE  LET r == OnNewDevice(q) IN Typed(r) /\ r.shot = q.shot /\ r.file = q.file
<1> DEFINE s == SurfacesReset(q)
           r == OnNewDevice(q)
           o == [n \in Overlays |-> IF s.overlay[n] = "live" THEN "stale" ELSE s.overlay[n]]
<1>1. Typed(s) /\ s.shot = q.shot /\ s.file = q.file
      BY SurfacesResetKeeps DEF SameDecoding
<1>2. r = [s EXCEPT !.chain = NoChain, !.overlay = o]
      BY <1>1 DEF OnNewDevice, Typed, Player
<1> HIDE DEF s, r
<1>3. s \in Player /\ Len(s.events) <= MaxEvents
      BY <1>1 DEF Typed
<1>4. o \in [Overlays -> Ages \cup {"none"}]
      BY <1>3 DEF Player, Ages
<1> HIDE DEF o
<1>5. r \in Player /\ r.shot = s.shot /\ r.file = s.file /\ r.events = s.events
      BY <1>2, <1>3, <1>4, Empties DEF Player
<1> QED BY <1>1, <1>3, <1>5 DEF Typed, r

(* A recovery begins anew on a device, or fails.                            *)
LEMMA RecoveredStands ==
    ASSUME NEW q, PlayerInv(q), display \subseteq DisplayBits
    PROVE  PlayerInv(Recovered(q)) /\ Recovered(q).shot = q.shot
<1> DEFINE d == OnNewDevice(q)
           b == Rebuilt(d, FALSE)
           o == [q EXCEPT !.chain = NoChain]
<1>1. Typed(q)
      BY DEF PlayerInv
<1>2. CASE q.file = "none"
      BY <1>2 DEF Recovered
<1>3. CASE q.file # "none" /\ ~DeviceMade
  <2>1. Recovered(q) = Failed(o)
        BY <1>3 DEF Recovered
  <2>2. o = WithChain(q, q.path, NoChain) /\ q.path \in Paths
        BY <1>1, PathSame
  <2> HIDE DEF o
  <2>3. Typed(o) /\ SameBehind(o, q) /\ o.chain = NoChain
        BY <1>1, <2>2, ChainSet, Empties
  <2>4. ChainFits(o) /\ o.chain.age = "live"
        BY <2>3, Empties DEF ChainFits
  <2> QED BY <2>1, <2>3, <2>4, FailedStands DEF SameBehind
<1>4. CASE q.file # "none" /\ DeviceMade
  <2>1. Typed(d) /\ d.shot = q.shot
        BY <1>1, OnNewDeviceKeeps
  <2>2. Recovered(q) = IF b.chain = NoChain THEN Failed(b) ELSE Begun(b, "seeking", FALSE)
        BY <1>4 DEF Recovered
  <2> HIDE DEF d
  <2>3. Typed(b) /\ SameBehind(b, d) /\ ChainFits(b) /\ b.chain.age = "live"
        BY <2>1, RebuiltKeeps
  <2> HIDE DEF b
  <2>4. b.shot = q.shot
        BY <2>1, <2>3 DEF SameBehind
  <2>5. CASE b.chain = NoChain
        BY <2>2, <2>3, <2>4, <2>5, FailedStands
  <2>6. CASE b.chain # NoChain
        BY <2>2, <2>3, <2>4, <2>6, BegunStands
  <2> QED BY <2>5, <2>6
<1> QED BY <1>2, <1>3, <1>4

(* A player whose channel and queue were emptied: what was heard of the     *)
(* file before has been taken in.                                           *)
LEMMA EmptiedStands ==
    ASSUME NEW r, Typed(r), ChainFits(r), Lives(r), r.state # "error", r.cue = FALSE,
           r.picture # NoPicture => GoesWith(r.picture.mode, r.file),
           r.queue = <<>>, r.events = <<>>,
           ~r.raced => /\ r.worker.phase \in {"running", "parked"} \/ r.worker.late
                              => r.told # "none" /\ r.known
                       /\ r.worker.phase = "opening" /\ r.worker.sent > 0 /\ r.file # "sound"
                              => r.told # "none",
           r.worker.phase = "opening" => r.worker.sent < Len(Announced(r.file, r.worker.hdr))
    PROVE  PlayerInv(r)
<1>1. DOMAIN r.queue = {} /\ DOMAIN r.events = {}
      OBVIOUS
<1>2. PictureFits(r)
      BY <1>1 DEF PictureFits
<1>3. InOrder(r)
      BY <1>1 DEF InOrder, PathBefore, DurationBefore
<1>4. Sent(r) /\ CueLives(r) /\ ErrorIsLast(r)
      BY DEF Sent, CueLives, ErrorIsLast
<1> QED BY <1>2, <1>3, <1>4 DEF PlayerInv

LEMMA OpenedStands ==
    ASSUME NEW q, PlayerInv(q), NEW file \in Files, display \subseteq DisplayBits, removed \in BOOLEAN
    PROVE  PlayerInv(Opened(q, file)) /\ Opened(q, file).shot = q.shot
<1> DEFINE o == [q EXCEPT !.file = file, !.known = FALSE, !.soft = FALSE]
<1>1. Typed(q) /\ ChainFits(q) /\ q.chain.age = "live"
      BY DEF PlayerInv, Lives
<1>2. Opened(q, file) = Begun(o, "opening", removed)
      BY DEF Opened
<1>3. /\ o \in Player /\ o.chain = q.chain /\ o.path = q.path /\ o.shot = q.shot
      /\ o.events = q.events
      BY <1>1 DEF Typed, Player
<1> HIDE DEF o
<1>4. Typed(o) /\ ChainFits(o) /\ o.chain.age = "live"
      BY <1>1, <1>3 DEF Typed, ChainFits
<1> QED BY <1>2, <1>3, <1>4, BegunStands

LEMMA SoughtStands ==
    ASSUME NEW q, PlayerInv(q), display \subseteq DisplayBits, removed \in BOOLEAN
    PROVE  PlayerInv(Sought(q)) /\ Sought(q).shot = q.shot
<1> DEFINE s == Prepared(q, FALSE)
           r == [s EXCEPT !.state = "seeking"]
<1>1. CASE q.state \in {"idle", "opening", "error"}
      BY <1>1 DEF Sought
<1>2. CASE q.state \notin {"idle", "opening", "error"}
  <2>1. Typed(q) /\ ChainFits(q) /\ PictureFits(q) /\ Lives(q) /\ InOrder(q) /\ Sent(q)
        BY DEF PlayerInv
  <2>2. /\ Typed(s) /\ SameDecoding(s, q)
        /\ s.path = q.path /\ s.chain = q.chain /\ s.shot = q.shot
        /\ s.queue = <<>> /\ s.events = <<>> /\ s.cue = FALSE
        /\ s.picture \in {q.picture, NoPicture}
        /\ s.overlay["subtitle"] = "none"
        /\ \A n \in {"timeline", "volume"} : s.overlay[n] \in {q.overlay[n], "none"}
        BY <2>1, PreparedKeeps
  <2>3. Sought(q) = IF q.worker.phase = "retired" THEN r
                    ELSE IF q.worker.phase = "none" \/ q.worker.soft # q.soft
                    THEN Spawned(r, removed)
                    ELSE [r EXCEPT !.worker.late = TRUE, !.raced = @ \/ q.told = "none" \/ ~q.known]
        BY <1>2 DEF Sought
  <2> HIDE DEF s
  <2>4. /\ r \in Player /\ r.state = "seeking"
        /\ r.file = q.file /\ r.known = q.known /\ r.told = q.told
        /\ r.soft = q.soft /\ r.worker = q.worker /\ r.raced = q.raced
        /\ r.path = q.path /\ r.chain = q.chain /\ r.shot = q.shot
        /\ r.queue = <<>> /\ r.events = <<>> /\ r.cue = FALSE
        /\ r.picture = s.picture /\ r.overlay = s.overlay
        BY <2>2 DEF Typed, Player, SameDecoding
  <2> HIDE DEF r
  <2>5. Typed(r) /\ ChainFits(r)
        BY <2>1, <2>2, <2>4, Empties DEF Typed, ChainFits
  <2>6. Lives(r)
    <3>1. r.chain.age = "live" /\ r.picture.age = "live" /\ DOMAIN r.queue = {}
          BY <2>1, <2>2, <2>4, Empties DEF Lives
    <3>2. \A n \in {"subtitle", "timeline", "volume"} : r.overlay[n] # "stale"
          BY <2>1, <2>2, <2>4 DEF Lives
    <3> QED BY <3>1, <3>2 DEF Lives
  <2>7. r.picture # NoPicture => GoesWith(r.picture.mode, r.file)
        BY <2>1, <2>2, <2>4 DEF PictureFits
  <2>8. CASE q.worker.phase = "retired"
    <3>1. ~r.raced /\ r.worker.late => r.told # "none" /\ r.known
          BY <2>1, <2>4 DEF InOrder
    <3>2. PlayerInv(r)
          BY <2>4, <2>5, <2>6, <2>7, <2>8, <3>1, EmptiedStands
    <3> QED BY <2>3, <2>4, <2>8, <3>2
  <2>9. CASE q.worker.phase # "retired" /\ (q.worker.phase = "none" \/ q.worker.soft # q.soft)
    <3> DEFINE t == Spawned(r, removed)
    <3>1. /\ Typed(t)
          /\ t.worker.phase = "opening" /\ t.worker.sent = 0 /\ t.worker.late = FALSE
          /\ t.state = r.state /\ t.file = r.file /\ t.path = r.path /\ t.chain = r.chain
          /\ t.picture = r.picture /\ t.queue = r.queue /\ t.events = r.events
          /\ t.overlay = r.overlay /\ t.cue = r.cue /\ t.shot = r.shot
          BY <2>5, SpawnedKeeps, ZenonT(60)
    <3>2. Sought(q) = t
          BY <2>3, <2>9
    <3> HIDE DEF t
    <3>3. ChainFits(t) /\ Lives(t)
          BY <2>5, <2>6, <3>1 DEF ChainFits, Lives
    <3>4. t.worker.sent < Len(Announced(t.file, t.worker.hdr))
      <4>1. 2 <= Len(Announced(t.file, t.worker.hdr))
            BY AnnouncedIsLong
      <4> QED BY <3>1, <4>1
    <3>5. ~(t.worker.sent > 0)
          BY <3>1
    <3>6. PlayerInv(t)
          BY <2>4, <2>7, <3>1, <3>3, <3>4, <3>5, EmptiedStands
    <3> QED BY <2>4, <3>1, <3>2, <3>6
  <2>10. CASE q.worker.phase # "retired" /\ ~(q.worker.phase = "none" \/ q.worker.soft # q.soft)
    <3> DEFINE w == [r.worker EXCEPT !.late = TRUE]
               raced == r.raced \/ q.told = "none" \/ ~q.known
               t == [r EXCEPT !.worker = w, !.raced = raced]
    <3>1. Sought(q) = t
          BY <2>3, <2>4, <2>10 DEF Player
    <3>2. r.worker \in Workers /\ raced \in BOOLEAN
          BY <2>4 DEF Player
    <3>3. /\ w \in Workers /\ w.phase = r.worker.phase /\ w.sent = r.worker.sent
          /\ w.hdr = r.worker.hdr /\ w.late = TRUE
          BY <3>2 DEF Workers
    <3>4. ~raced => q.told # "none" /\ q.known
          OBVIOUS
    <3> HIDE DEF w, raced
    <3>5. /\ t \in Player /\ t.worker = w /\ t.raced = raced
          /\ t.state = r.state /\ t.file = r.file /\ t.path = r.path /\ t.chain = r.chain
          /\ t.picture = r.picture /\ t.queue = r.queue /\ t.events = r.events
          /\ t.overlay = r.overlay /\ t.cue = r.cue /\ t.shot = r.shot
          /\ t.told = r.told /\ t.known = r.known
          BY <2>4, <3>2, <3>3 DEF Player
    <3> HIDE DEF t
    <3>6. Typed(t) /\ ChainFits(t) /\ Lives(t)
          BY <2>4, <2>5, <2>6, <3>5 DEF Typed, ChainFits, Lives
    <3>7. t.worker.phase = "opening" => t.worker.sent < Len(Announced(t.file, t.worker.hdr))
          BY <2>1, <2>4, <3>3, <3>5 DEF Sent
    <3>8. ~t.raced => t.told # "none" /\ t.known
          BY <2>4, <3>4, <3>5
    <3>9. PlayerInv(t)
          BY <2>4, <2>7, <3>5, <3>6, <3>7, <3>8, EmptiedStands
    <3> QED BY <2>4, <3>1, <3>5, <3>9
  <2> QED BY <2>8, <2>9, <2>10
<1> QED BY <1>1, <1>2

-----------------------------------------------------------------------------
(* The steps of the loop.                                                   *)

\* What the worker sends and the session takes in.
SameStream(r, q) ==
    /\ r.file = q.file /\ r.known = q.known /\ r.told = q.told /\ r.worker = q.worker
    /\ r.raced = q.raced /\ r.picture = q.picture /\ r.queue = q.queue /\ r.events = q.events

(* A step that draws overlays or a chain, and neither begins nor ends in an *)
(* error.                                                                   *)
LEMMA RedrawnStands ==
    ASSUME NEW q, PlayerInv(q), NEW r, r \in Player, SameStream(r, q),
           r.state = "error" <=> q.state = "error",
           ChainFits(r), r.chain.age = "live",
           \A n \in {"subtitle", "timeline", "volume"} :
               r.overlay[n] \in {q.overlay[n], "none", "live"},
           r.cue => \/ q.cue /\ r.overlay["subtitle"] = q.overlay["subtitle"]
                    \/ r.overlay["subtitle"] = "live"
    PROVE  PlayerInv(r)
<1>1. /\ Typed(q) /\ PictureFits(q) /\ Lives(q) /\ InOrder(q) /\ Sent(q)
      /\ CueLives(q) /\ ErrorIsLast(q)
      BY DEF PlayerInv
<1>2. Typed(r)
      BY <1>1 DEF Typed, SameStream
<1>3. PictureFits(r)
      BY <1>1 DEF PictureFits, SameStream
<1>4. Lives(r)
  <2>1. r.picture.age = "live" /\ \A i \in DOMAIN r.queue : r.queue[i].age = "live"
        BY <1>1 DEF Lives, SameStream
  <2>2. \A n \in {"subtitle", "timeline", "volume"} : r.overlay[n] # "stale"
        BY <1>1 DEF Lives
  <2> QED BY <2>1, <2>2 DEF Lives
<1>5. InOrder(r)
      BY <1>1 DEF InOrder, PathBefore, DurationBefore, Before, SameStream
<1>6. Sent(r)
      BY <1>1 DEF Sent, SameStream
<1>7. CueLives(r)
      BY <1>1 DEF CueLives
<1>8. ErrorIsLast(r)
      BY <1>1 DEF ErrorIsLast, SameStream
<1> QED BY <1>2, <1>3, <1>4, <1>5, <1>6, <1>7, <1>8 DEF PlayerInv

(* An overlay and what goes with it.                                        *)
LEMMA OverlaySet ==
    ASSUME NEW q, q \in Player, NEW name \in Overlays, NEW age \in {"none", "live"}
    PROVE  LET o == [q.overlay EXCEPT ![name] = age] IN
           /\ o \in [Overlays -> Ages \cup {"none"}] /\ o[name] = age
           /\ \A n \in Overlays \ {name} : o[n] = q.overlay[n]
<1>1. q.overlay \in [Overlays -> Ages \cup {"none"}]
      BY DEF Player
<1> QED BY <1>1 DEF Ages

\* The booleans, as the set of a flag.
Flags == BOOLEAN

\* A player of whom an overlay was drawn or taken away, with what goes with it.
Redrawn(q, name, age, present, cue, shown) ==
    [q EXCEPT !.overlay = [@ EXCEPT ![name] = age], !.present = present, !.cue = cue,
              !.shown = shown]

\* What may be believed of the cue when this overlay was drawn or taken away.
CueMay(q, name, age, cue) ==
    /\ cue \in {FALSE, q.cue} \/ name = "subtitle"
    /\ cue = FALSE \/ name # "subtitle" \/ age = "live"

LEMMA OverlayStands ==
    ASSUME NEW q, PlayerInv(q), NEW name \in Overlays, NEW age \in {"none", "live"},
           NEW present \in Flags, NEW cue \in Flags, NEW shown \in Flags,
           CueMay(q, name, age, cue)
    PROVE  LET r == Redrawn(q, name, age, present, cue, shown) IN
           PlayerInv(r) /\ r.shot = q.shot
<1> DEFINE o == [q.overlay EXCEPT ![name] = age]
           r == [q EXCEPT !.overlay = o, !.present = present, !.cue = cue, !.shown = shown]
<1>1. q \in Player /\ ChainFits(q) /\ q.chain.age = "live"
      BY DEF PlayerInv, Typed, Lives
<1>9. Redrawn(q, name, age, present, cue, shown) = r
      BY <1>1 DEF Player, Redrawn
<1>2. /\ o \in [Overlays -> Ages \cup {"none"}] /\ o[name] = age
      /\ \A n \in Overlays \ {name} : o[n] = q.overlay[n]
      BY <1>1, OverlaySet
<1> HIDE DEF o
<1>3. /\ r \in Player /\ r.overlay = o /\ r.cue = cue
      /\ r.state = q.state /\ r.path = q.path /\ r.chain = q.chain /\ r.shot = q.shot
      BY <1>1, <1>2, ZenonT(60) DEF Player, Flags
<1>4. SameStream(r, q)
      BY <1>1 DEF Player, SameStream
<1> HIDE DEF r
<1>5. ChainFits(r) /\ r.chain.age = "live"
      BY <1>1, <1>3 DEF ChainFits
<1>6. \A n \in {"subtitle", "timeline", "volume"} : r.overlay[n] \in {q.overlay[n], "none", "live"}
  <2> SUFFICES ASSUME NEW n \in {"subtitle", "timeline", "volume"}
               PROVE  r.overlay[n] \in {q.overlay[n], "none", "live"}
      OBVIOUS
  <2>1. n \in Overlays
        BY DEF Overlays
  <2> QED BY <1>2, <1>3, <2>1
<1>7. r.cue => \/ q.cue /\ r.overlay["subtitle"] = q.overlay["subtitle"]
               \/ r.overlay["subtitle"] = "live"
  <2>1. "subtitle" \in Overlays
        BY DEF Overlays
  <2>2. CASE cue = FALSE
        BY <1>3, <2>2
  <2>3. CASE name = "subtitle" /\ age = "live"
        BY <1>2, <1>3, <2>1, <2>3
  <2>4. CASE name # "subtitle" /\ cue = q.cue
        BY <1>2, <1>3, <2>1, <2>4
  <2> QED BY <2>2, <2>3, <2>4 DEF CueMay
<1>8. PlayerInv(r)
      BY <1>3, <1>4, <1>5, <1>6, <1>7, RedrawnStands
<1> QED BY <1>3, <1>8, <1>9

(* The same, of no overlay.                                                 *)
Presented(q, present, drawn, shot) ==
    [q EXCEPT !.present = present, !.drawn = drawn, !.shot = shot]

LEMMA PresentStands ==
    ASSUME NEW q, PlayerInv(q), NEW present \in Flags, NEW drawn \in Flags,
           NEW shot \in {"none", "pending", "taken"}
    PROVE  LET r == Presented(q, present, drawn, shot) IN PlayerInv(r) /\ r.shot = shot
<1> DEFINE r == [q EXCEPT !.present = present, !.drawn = drawn, !.shot = shot]
<1>1. q \in Player /\ ChainFits(q) /\ q.chain.age = "live"
      BY DEF PlayerInv, Typed, Lives
<1>2. /\ r \in Player /\ r.overlay = q.overlay /\ r.cue = q.cue /\ r.shot = shot
      /\ r.state = q.state /\ r.path = q.path /\ r.chain = q.chain
      BY <1>1, ZenonT(60) DEF Player, Flags
<1>3. SameStream(r, q)
      BY <1>1 DEF Player, SameStream
<1> HIDE DEF r
<1>4. ChainFits(r) /\ r.chain.age = "live"
      BY <1>1, <1>2 DEF ChainFits
<1>5. PlayerInv(r)
      BY <1>2, <1>3, <1>4, RedrawnStands
<1> QED BY <1>2, <1>5 DEF r, Presented

(* The first of the channel is taken in.                                    *)
LEMMA TailOf ==
    ASSUME NEW S, NEW s \in Seq(S), s # <<>>
    PROVE  /\ Tail(s) \in Seq(S) /\ Len(Tail(s)) = Len(s) - 1 /\ Len(s) \in Nat /\ Len(s) > 0
           /\ s[1] \in S /\ Head(s) = s[1] /\ DOMAIN s = 1 .. Len(s)
           /\ DOMAIN Tail(s) = 1 .. Len(s) - 1
           /\ \A i \in 1 .. Len(s) - 1 : Tail(s)[i] = s[i + 1]
OBVIOUS

LEMMA BeforeTail ==
    ASSUME NEW q, q.events \in Seq(Events), q.events # <<>>, NEW r, r.events = Tail(q.events),
           NEW n \in 1 .. Len(q.events), NEW kind, Before(q, n + 1, kind),
           Head(q.events).kind # kind
    PROVE  Before(r, n, kind)
<1>1. PICK i \in 1 .. n : q.events[i].kind = kind
      BY DEF Before
<1>2. /\ Len(q.events) \in Nat /\ Head(q.events) = q.events[1]
      /\ \A j \in 1 .. Len(q.events) - 1 : Tail(q.events)[j] = q.events[j + 1]
      BY TailOf
<1>3. i # 1
      BY <1>1, <1>2
<1>4. i - 1 \in 1 .. n - 1 /\ i - 1 \in 1 .. Len(q.events) - 1 /\ (i - 1) + 1 = i
      BY <1>2, <1>3
<1>5. r.events[i - 1] = q.events[i]
      BY <1>2, <1>4
<1> QED BY <1>1, <1>4, <1>5 DEF Before

LEMMA TakenStands ==
    ASSUME NEW q, PlayerInv(q), q.events # <<>>, q.queue = <<>>,
           NEW r, r \in Player, r.events = Tail(q.events), r.state # "error",
           r.file = q.file, r.worker = q.worker, r.raced = q.raced, r.picture = q.picture,
           r.overlay = q.overlay, r.cue = q.cue, ChainFits(r), r.chain.age = "live",
           r.told = q.told \/ r.told # "none", Head(q.events).kind = "path" => r.told # "none",
           r.known = q.known \/ r.known, Head(q.events).kind = "duration" => r.known,
           \/ r.queue = <<>>
           \/ /\ Head(q.events).kind = "frame"
              /\ r.queue = <<[mode |-> Head(q.events).value, age |-> "live"]>>
    PROVE  PlayerInv(r)
<1> DEFINE e == Head(q.events)
           len == Len(q.events)
<1>1. /\ Typed(q) /\ PictureFits(q) /\ Lives(q) /\ InOrder(q) /\ Sent(q)
      /\ CueLives(q) /\ ErrorIsLast(q)
      BY DEF PlayerInv
<1>2. q.events \in Seq(Events) /\ len <= MaxEvents /\ MaxEvents \in Nat
      BY <1>1, ScreenConstants DEF Typed, Player, ScreenConstants
<1>3. /\ r.events \in Seq(Events) /\ Len(r.events) = len - 1 /\ len \in Nat /\ len > 0
      /\ e = q.events[1] /\ DOMAIN q.events = 1 .. len /\ DOMAIN r.events = 1 .. len - 1
      /\ \A i \in 1 .. len - 1 : r.events[i] = q.events[i + 1]
      BY <1>2, TailOf
<1>4. Typed(r)
      BY <1>2, <1>3 DEF Typed
<1>5. ~q.worker.late /\ q.state # "error"
      BY <1>1 DEF Sent, ErrorIsLast
<1> HIDE DEF len
<1>6. PictureFits(r)
  <2>1. r.picture # NoPicture => GoesWith(r.picture.mode, r.file)
        BY <1>1 DEF PictureFits
  <2>2. \A i \in DOMAIN r.events : r.events[i].kind = "frame" => GoesWith(r.events[i].value, r.file)
    <3> SUFFICES ASSUME NEW i \in DOMAIN r.events, r.events[i].kind = "frame"
                 PROVE  GoesWith(r.events[i].value, r.file)
        OBVIOUS
    <3>1. i + 1 \in DOMAIN q.events /\ r.events[i] = q.events[i + 1]
          BY <1>3
    <3> QED BY <1>1, <3>1 DEF PictureFits
  <2>3. \A i \in DOMAIN r.queue : GoesWith(r.queue[i].mode, r.file)
    <3>1. CASE r.queue = <<>>
          BY <3>1
    <3>2. CASE e.kind = "frame" /\ r.queue = <<[mode |-> e.value, age |-> "live"]>>
      <4>1. 1 \in DOMAIN q.events /\ q.events[1].kind = "frame"
            BY <1>3, <3>2
      <4>2. GoesWith(e.value, q.file)
            BY <1>1, <1>3, <4>1 DEF PictureFits
      <4> HIDE DEF e
      <4> QED BY <3>2, <4>2
    <3> QED BY <3>1, <3>2
  <2> QED BY <2>1, <2>2, <2>3 DEF PictureFits
<1>7. Lives(r)
  <2>1. \A i \in DOMAIN r.queue : r.queue[i].age = "live"
    <3>1. CASE r.queue = <<>>
          BY <3>1
    <3>2. CASE r.queue = <<[mode |-> e.value, age |-> "live"]>>
      <4> HIDE DEF e
      <4> QED BY <3>2
    <3> QED BY <3>1, <3>2
  <2> QED BY <1>1, <2>1 DEF Lives
<1>8. InOrder(r)
  <2> SUFFICES ASSUME ~r.raced PROVE InOrder(r)
      BY DEF InOrder
  <2>1. ASSUME NEW n \in 1 .. len, PathBefore(q, n + 1)
        PROVE  PathBefore(r, n)
        BY <1>2, <2>1, BeforeTail DEF PathBefore, len
  <2>2. ASSUME NEW n \in 1 .. len, DurationBefore(q, n + 1)
        PROVE  DurationBefore(r, n)
        BY <1>2, <2>2, BeforeTail DEF DurationBefore, len
  <2>3. \A n \in DOMAIN r.events :
            r.events[n].kind = "frame" => PathBefore(r, n) /\ DurationBefore(r, n)
    <3> SUFFICES ASSUME NEW n \in DOMAIN r.events, r.events[n].kind = "frame"
                 PROVE  PathBefore(r, n) /\ DurationBefore(r, n)
        OBVIOUS
    <3>1. n + 1 \in DOMAIN q.events /\ r.events[n] = q.events[n + 1] /\ n \in 1 .. len
          BY <1>3
    <3>2. PathBefore(q, n + 1) /\ DurationBefore(q, n + 1)
          BY <1>1, <3>1 DEF InOrder
    <3> QED BY <2>1, <2>2, <3>1, <3>2
  <2>4. r.queue # <<>> => r.told # "none" /\ r.known
    <3>1. CASE e.kind = "frame"
      <4>1. 1 \in DOMAIN q.events /\ q.events[1].kind = "frame"
            BY <1>3, <3>1
      <4>2. PathBefore(q, 1) /\ DurationBefore(q, 1)
            BY <1>1, <4>1 DEF InOrder
      <4> QED BY <4>2 DEF PathBefore, DurationBefore, Before
    <3> QED BY <3>1
  <2>5. Len(q.events) + 1 = len + 1 /\ Len(r.events) + 1 = len /\ len \in 1 .. len
        BY <1>3 DEF len
  <2>6. r.worker.phase \in {"running", "parked"} => PathBefore(r, len) /\ DurationBefore(r, len)
    <3>1. q.worker.phase \in {"running", "parked"}
              => PathBefore(q, len + 1) /\ DurationBefore(q, len + 1)
          BY <1>1, <2>5 DEF InOrder
    <3> QED BY <2>1, <2>2, <2>5, <3>1
  <2>7. r.worker.phase = "opening" /\ r.worker.sent > 0 /\ r.file # "sound" => PathBefore(r, len)
    <3>1. q.worker.phase = "opening" /\ q.worker.sent > 0 /\ q.file # "sound"
              => PathBefore(q, len + 1)
          BY <1>1, <2>5 DEF InOrder
    <3> QED BY <2>1, <2>5, <3>1
  <2> QED BY <1>5, <2>3, <2>4, <2>5, <2>6, <2>7 DEF InOrder
<1>9. Sent(r)
      BY <1>1, <1>5 DEF Sent
<1>10. CueLives(r)
      BY <1>1, <1>5 DEF CueLives
<1> QED BY <1>4, <1>6, <1>7, <1>8, <1>9, <1>10 DEF PlayerInv, ErrorIsLast

LEMMA EventShapes ==
    ASSUME NEW e \in Events
    PROVE  /\ e.kind = "path" => e.value \in Paths
           /\ e.kind = "frame" => e.value \in Modes
           /\ e.kind \in {"mode", "duration", "sound", "fail", "lost"} => e.value \in BOOLEAN
           /\ e.kind \in {"path", "frame", "mode", "duration", "sound", "fail", "lost"}
BY DEF Events

\* handle_event of what the first of the channel is.
LEMMA HandledStands ==
    ASSUME NEW q, PlayerInv(q), q.events # <<>>, q.queue = <<>>, removed \in BOOLEAN
    PROVE  LET t == Handled(q, Head(q.events)) IN PlayerInv(t) /\ t.shot = q.shot
<1> DEFINE e == Head(q.events)
           r == [q EXCEPT !.events = Tail(q.events)]
           t == Handled(q, e)
<1>1. /\ Typed(q) /\ q \in Player /\ ChainFits(q) /\ q.chain.age = "live" /\ ErrorIsLast(q)
      /\ q.events \in Seq(Events) /\ Len(q.events) <= MaxEvents
      BY DEF PlayerInv, Typed, Player, Lives
<1>2. MaxEvents \in Nat
      BY ScreenConstants DEF ScreenConstants
<1>3. /\ e \in Events /\ Tail(q.events) \in Seq(Events) /\ Len(Tail(q.events)) <= MaxEvents
      BY <1>1, <1>2, TailOf
<1>4. q.state # "error"
      BY <1>1 DEF ErrorIsLast
<1>5. /\ r \in Player /\ r.events = Tail(q.events) /\ SameDecoding(r, q)
      /\ r.path = q.path /\ r.chain = q.chain /\ r.shot = q.shot /\ r.picture = q.picture
      /\ r.queue = <<>> /\ r.overlay = q.overlay /\ r.cue = q.cue
      BY <1>1, <1>3 DEF Player, SameDecoding
<1>6. t = CASE e.kind = "path" ->
                  IF SwappedOK(r, e.value)
                  THEN [Swapped(r, e.value) EXCEPT !.told = e.value, !.present = TRUE]
                  ELSE Failed(Swapped(r, e.value))
            [] e.kind = "mode" -> [r EXCEPT !.soft = r.soft \/ e.value]
            [] e.kind = "duration" -> [r EXCEPT !.known = TRUE]
            [] e.kind = "frame" ->
                  [r EXCEPT !.queue = <<[mode |-> e.value, age |-> "live"]>>,
                            !.state = IF r.state \in {"opening", "seeking"} THEN "playing"
                                      ELSE r.state]
            [] e.kind = "fail" -> Failed(r)
            [] OTHER -> r
      BY <1>5 DEF Handled, Player
<1>7. /\ e.kind = "path" => e.value \in Paths
      /\ e.kind = "frame" => e.value \in Modes
      /\ e.kind = "mode" => e.value \in BOOLEAN
      BY <1>3, EventShapes
<1> HIDE DEF r
<1>8. Typed(r) /\ ChainFits(r) /\ r.chain.age = "live"
      BY <1>1, <1>3, <1>5 DEF Typed, ChainFits
<1>9. CASE e.kind = "path"
  <2> DEFINE s == Swapped(r, e.value)
             u == [s EXCEPT !.told = e.value, !.present = TRUE]
  <2>1. Typed(s) /\ SameBehind(s, r) /\ ChainFits(s) /\ s.chain.age = "live"
        BY <1>7, <1>8, <1>9, SwappedKeeps
  <2>2. t = IF SwappedOK(r, e.value) THEN u ELSE Failed(s)
        BY <1>6, <1>9
  <2> HIDE DEF s, t
  <2>3. PlayerInv(Failed(s)) /\ Failed(s).shot = q.shot
        BY <1>5, <2>1, FailedStands DEF SameBehind
  <2>4. PlayerInv(u) /\ u.shot = q.shot
    <3>1. e.value \in Paths /\ e.value # "none"
          BY <1>7, <1>9 DEF Paths
    <3>2. s \in Player
          BY <2>1 DEF Typed
    <3> DEFINE v == e.value
    <3>3. v \in Paths /\ v # "none" /\ u = [s EXCEPT !.told = v, !.present = TRUE]
          BY <3>1
    <3> HIDE DEF v, u
    <3>4. /\ u \in Player /\ u.told = v /\ u.events = s.events /\ u.state = s.state
          /\ u.file = s.file /\ u.worker = s.worker /\ u.raced = s.raced
          /\ u.picture = s.picture /\ u.overlay = s.overlay /\ u.cue = s.cue
          /\ u.chain = s.chain /\ u.path = s.path /\ u.known = s.known /\ u.queue = s.queue
          /\ u.shot = s.shot
          BY <3>2, <3>3 DEF Player
    <3>5. /\ u.events = Tail(q.events) /\ u.state # "error" /\ u.file = q.file
          /\ u.worker = q.worker /\ u.raced = q.raced /\ u.picture = q.picture
          /\ u.overlay = q.overlay /\ u.cue = q.cue /\ u.known = q.known /\ u.queue = <<>>
          /\ u.shot = q.shot /\ u.told # "none"
          BY <1>4, <1>5, <2>1, <3>3, <3>4 DEF SameBehind, SameDecoding
    <3>6. ChainFits(u) /\ u.chain.age = "live"
          BY <2>1, <3>4 DEF ChainFits
    <3>7. Head(q.events).kind # "duration"
          BY <1>9
    <3> HIDE DEF e
    <3>8. PlayerInv(u)
          BY <3>4, <3>5, <3>6, <3>7, TakenStands
    <3> QED BY <3>5, <3>8
  <2> QED BY <2>2, <2>3, <2>4 DEF t
<1>10. CASE e.kind = "fail"
  <2>1. t = Failed(r)
        BY <1>6, <1>10
  <2> HIDE DEF t
  <2> QED BY <1>5, <1>8, <2>1, FailedStands DEF t
<1>11. CASE e.kind \in {"mode", "duration", "frame", "sound", "lost"}
  <2>1. /\ t \in Player /\ t.events = r.events /\ t.state # "error" /\ t.file = r.file
        /\ t.worker = r.worker /\ t.raced = r.raced /\ t.picture = r.picture
        /\ t.overlay = r.overlay /\ t.cue = r.cue /\ t.chain = r.chain /\ t.path = r.path
        /\ t.told = r.told /\ (r.known => t.known) /\ t.shot = r.shot
        /\ e.kind = "duration" => t.known
        /\ \/ t.queue = <<>>
           \/ e.kind = "frame" /\ t.queue = <<[mode |-> e.value, age |-> "live"]>>
    <3>1. r.state = q.state /\ r.soft \in BOOLEAN
          BY <1>5 DEF SameDecoding, Player
    <3>2. CASE e.kind = "mode"
      <4> DEFINE v == r.soft \/ e.value
      <4>1. v \in BOOLEAN /\ t = [r EXCEPT !.soft = v]
            BY <1>6, <1>7, <3>1, <3>2
      <4> HIDE DEF v, t
      <4> QED BY <1>4, <1>5, <3>1, <3>2, <4>1 DEF Player
    <3>3. CASE e.kind = "duration"
      <4>1. t = [r EXCEPT !.known = TRUE]
            BY <1>6, <3>3
      <4> HIDE DEF t
      <4> QED BY <1>4, <1>5, <3>1, <3>3, <4>1 DEF Player
    <3>4. CASE e.kind = "frame"
      <4> DEFINE f == [mode |-> e.value, age |-> "live"]
                 v == IF r.state \in {"opening", "seeking"} THEN "playing" ELSE r.state
      <4>1. t = [r EXCEPT !.queue = <<f>>, !.state = v]
            BY <1>6, <3>4
      <4>2. f \in Frames
            BY <1>7, <3>4 DEF Frames, Ages
      <4>3. <<f>> \in Queues
            BY <4>2 DEF Queues
      <4>4. v \in {"idle", "opening", "seeking", "playing"}
            BY <1>4, <1>5, <3>1 DEF Player
      <4> HIDE DEF f, v, t
      <4>5. /\ t \in Player /\ t.events = r.events /\ t.state = v /\ t.file = r.file
            /\ t.worker = r.worker /\ t.raced = r.raced /\ t.picture = r.picture
            /\ t.overlay = r.overlay /\ t.cue = r.cue /\ t.chain = r.chain /\ t.path = r.path
            /\ t.told = r.told /\ t.known = r.known /\ t.shot = r.shot
            /\ t.queue = <<f>>
            BY <1>5, <4>1, <4>3, <4>4 DEF Player
      <4> QED BY <3>4, <4>4, <4>5 DEF f
    <3>5. CASE e.kind \in {"sound", "lost"}
      <4>1. t = r
            BY <1>6, <3>5
      <4> HIDE DEF t
      <4> QED BY <1>4, <1>5, <3>1, <3>5, <4>1
    <3> QED BY <1>11, <3>2, <3>3, <3>4, <3>5
  <2> HIDE DEF t
  <2>2. /\ t.events = Tail(q.events) /\ t.file = q.file /\ t.worker = q.worker
        /\ t.raced = q.raced /\ t.picture = q.picture /\ t.overlay = q.overlay
        /\ t.cue = q.cue /\ t.told = q.told /\ (t.known = q.known \/ t.known)
        /\ t.shot = q.shot
    <3>1. r.known \in BOOLEAN /\ t.known \in BOOLEAN
          BY <1>5, <2>1 DEF Player
    <3> QED BY <1>5, <2>1, <3>1 DEF SameDecoding
  <2>3. ChainFits(t) /\ t.chain.age = "live"
        BY <1>8, <2>1 DEF ChainFits
  <2>4. Head(q.events).kind # "path"
        BY <1>11
  <2>5. /\ Head(q.events).kind = "duration" => t.known
        /\ \/ t.queue = <<>>
           \/ /\ Head(q.events).kind = "frame"
              /\ t.queue = <<[mode |-> Head(q.events).value, age |-> "live"]>>
        BY <2>1
  <2> HIDE DEF e
  <2>6. PlayerInv(t)
        BY <2>1, <2>2, <2>3, <2>4, <2>5, TakenStands
  <2> QED BY <2>2, <2>6 DEF t, e
<1> QED BY <1>3, <1>9, <1>10, <1>11, EventShapes

-----------------------------------------------------------------------------
(* The worker's steps.                                                      *)

\* What a step of the worker leaves alone.
SameScreen(r, q) ==
    /\ r.state = q.state /\ r.file = q.file /\ r.path = q.path /\ r.chain = q.chain
    /\ r.picture = q.picture /\ r.queue = q.queue /\ r.overlay = q.overlay /\ r.cue = q.cue
    /\ r.known = q.known /\ r.told = q.told /\ r.shot = q.shot

(* The mode a worker stamps goes with the file.                             *)
LEMMA StampGoesWith ==
    ASSUME NEW file, NEW hdr \in BOOLEAN
    PROVE  LET mode == ModeFor(PathFor(Content(TagsOf(file)), hdr)) IN
           mode \in Modes /\ GoesWith(mode, file)
<1>1. \/ TagsOf(file) = Tags("bt709", "bt709", "bt709")
      \/ TagsOf(file) = Tags("bt709", "bt2020", "ncl")
      \/ TagsOf(file) = Tags("pq", "bt2020", "ncl")
      \/ TagsOf(file) = Tags("hlg", "bt2020", "unspecified")
      \/ TagsOf(file) = Tags("pq", "bt2020", "constant")
      \/ TagsOf(file) = Tags("unspecified", "bt2020", "ncl")
      \/ TagsOf(file) = Tags("pq", "bt709", "bt709")
      BY DEF TagsOf
<1> QED BY <1>1 DEF GoesWith, Tags, Content, PathFor, ModeFor, Modes

LEMMA PathIsPath ==
    ASSUME NEW tags, NEW hdr \in BOOLEAN
    PROVE  PathFor(Content(tags), hdr) \in Paths
BY DEF PathFor, Paths

(* What is announced begins with the path, and ends an open that succeeds   *)
(* with the duration.                                                       *)
LEMMA AnnouncedShape ==
    ASSUME NEW file, NEW hdr \in BOOLEAN
    PROVE  LET all == Announced(file, hdr) IN
           /\ \A i \in 1 .. Len(all) : all[i] \in Events /\ all[i].kind # "frame"
           /\ file # "sound" => all[1].kind = "path"
           /\ \/ all[Len(all)].kind \in {"fail", "sound"}
              \/ file # "sound" /\ all[Len(all)].kind = "duration"
<1> DEFINE path == PathFor(Content(TagsOf(file)), hdr)
           decodes == path = "sdr" \/ (path # "unsupported" /\ HasSignal(TagsOf(file)))
           all == Announced(file, hdr)
<1>1. path \in Paths
      BY PathIsPath
<1>2. /\ Event("path", path) \in Events /\ Event("path", "sdr") \in Events
      /\ Event("duration", TRUE) \in Events /\ Event("sound", TRUE) \in Events
      /\ Event("fail", TRUE) \in Events /\ Event("mode", FALSE) \in Events
      BY <1>1 DEF Event, Events, Paths
<1>3. \/ file = "sound" /\ all = <<Event("duration", TRUE), Event("path", "sdr"), Event("sound", TRUE)>>
      \/ file # "sound" /\ all = <<Event("path", path), Event("fail", TRUE)>>
      \/ file # "sound" /\ all = <<Event("path", path), Event("mode", FALSE), Event("duration", TRUE)>>
      BY DEF Announced
<1> HIDE DEF path, all
<1>4. /\ Event("path", path).kind = "path" /\ Event("path", "sdr").kind = "path"
      /\ Event("duration", TRUE).kind = "duration" /\ Event("sound", TRUE).kind = "sound"
      /\ Event("fail", TRUE).kind = "fail" /\ Event("mode", FALSE).kind = "mode"
      BY DEF Event
<1> DEFINE Shape ==
        /\ \A i \in 1 .. Len(all) : all[i] \in Events /\ all[i].kind # "frame"
        /\ file # "sound" => all[1].kind = "path"
        /\ \/ all[Len(all)].kind \in {"fail", "sound"}
           \/ file # "sound" /\ all[Len(all)].kind = "duration"
<1>5. CASE file = "sound" /\ all = <<Event("duration", TRUE), Event("path", "sdr"), Event("sound", TRUE)>>
  <2>1. Len(all) = 3 /\ all[1] = Event("duration", TRUE) /\ all[2] = Event("path", "sdr")
        /\ all[3] = Event("sound", TRUE)
        BY <1>5
  <2>2. file = "sound"
        BY <1>5
  <2>3. \A i \in 1 .. Len(all) : i = 1 \/ i = 2 \/ i = 3
        BY ONLY <2>1
  <2>4. \A i \in 1 .. Len(all) : all[i] \in Events /\ all[i].kind # "frame"
        BY ONLY <1>2, <1>4, <2>1, <2>3
  <2>5. Shape
        BY ONLY <1>4, <2>1, <2>2, <2>4
  <2> QED BY <2>5 DEF all
<1>6. CASE file # "sound" /\ all = <<Event("path", path), Event("fail", TRUE)>>
  <2>1. Len(all) = 2 /\ all[1] = Event("path", path) /\ all[2] = Event("fail", TRUE)
        BY <1>6
  <2>2. file # "sound"
        BY <1>6
  <2>3. \A i \in 1 .. Len(all) : i = 1 \/ i = 2
        BY ONLY <2>1
  <2>4. \A i \in 1 .. Len(all) : all[i] \in Events /\ all[i].kind # "frame"
        BY ONLY <1>2, <1>4, <2>1, <2>3
  <2>5. Shape
        BY ONLY <1>4, <2>1, <2>2, <2>4
  <2> QED BY <2>5 DEF all
<1>7. CASE file # "sound" /\ all = <<Event("path", path), Event("mode", FALSE), Event("duration", TRUE)>>
  <2>1. Len(all) = 3 /\ all[1] = Event("path", path) /\ all[2] = Event("mode", FALSE)
        /\ all[3] = Event("duration", TRUE)
        BY <1>7
  <2>2. file # "sound"
        BY <1>7
  <2>3. \A i \in 1 .. Len(all) : i = 1 \/ i = 2 \/ i = 3
        BY ONLY <2>1
  <2>4. \A i \in 1 .. Len(all) : all[i] \in Events /\ all[i].kind # "frame"
        BY ONLY <1>2, <1>4, <2>1, <2>3
  <2>5. Shape
        BY ONLY <1>4, <2>1, <2>2, <2>4
  <2> QED BY <2>5 DEF all
<1> QED BY <1>3, <1>5, <1>6, <1>7

(* Nothing is in the channel or the queue, and the worker moves.            *)
LEMMA BareStands ==
    ASSUME NEW q, PlayerInv(q), q.events = <<>>, q.queue = <<>>, q.state # "error",
           NEW r, r \in Player, SameScreen(r, q), r.events = <<>>,
           ~r.raced => /\ r.worker.phase \in {"running", "parked"} \/ r.worker.late
                              => r.told # "none" /\ r.known
                       /\ r.worker.phase = "opening" /\ r.worker.sent > 0 /\ r.file # "sound"
                              => r.told # "none",
           r.worker.phase = "opening" => r.worker.sent < Len(Announced(r.file, r.worker.hdr))
    PROVE  PlayerInv(r)
<1>1. /\ PictureFits(q) /\ Lives(q) /\ ChainFits(q) /\ CueLives(q)
      BY DEF PlayerInv
<1>2. Typed(r) /\ DOMAIN r.events = {} /\ DOMAIN r.queue = {} /\ r.queue = <<>>
      BY Empties DEF Typed, SameScreen
<1>3. PictureFits(r) /\ Lives(r) /\ ChainFits(r)
      BY <1>1, <1>2 DEF PictureFits, Lives, ChainFits, SameScreen
<1>4. InOrder(r)
      BY <1>2 DEF InOrder, PathBefore, DurationBefore
<1>5. Sent(r)
      BY <1>2 DEF Sent
<1>6. CueLives(r) /\ ErrorIsLast(r)
      BY <1>1 DEF CueLives, ErrorIsLast, SameScreen
<1> QED BY <1>2, <1>3, <1>4, <1>5, <1>6 DEF PlayerInv

(* An event joins the channel.                                              *)
LEMMA AppendedAre ==
    ASSUME NEW S, NEW s \in Seq(S), NEW e \in S
    PROVE  LET t == Append(s, e) IN
           /\ t \in Seq(S) /\ Len(t) = Len(s) + 1 /\ Len(s) \in Nat /\ t[Len(t)] = e
           /\ DOMAIN t = 1 .. Len(s) + 1 /\ DOMAIN s = 1 .. Len(s)
           /\ \A i \in 1 .. Len(s) : t[i] = s[i]
OBVIOUS

LEMMA AppendedStands ==
    ASSUME NEW q, PlayerInv(q), q.state # "error", ~q.worker.late, Len(q.events) < MaxEvents,
           NEW e \in Events,
           NEW r, r \in Player, SameScreen(r, q), r.raced = q.raced,
           r.events = Append(q.events, e), ~r.worker.late,
           e.kind = "frame" =>
               GoesWith(e.value, q.file) /\ q.worker.phase \in {"running", "parked"},
           r.worker.phase \in {"running", "parked"} =>
               \/ q.worker.phase \in {"running", "parked"}
               \/ /\ q.worker.phase = "opening" /\ q.worker.sent > 0 /\ q.file # "sound"
                  /\ e.kind = "duration",
           r.worker.phase = "opening" =>
               /\ r.worker.sent < Len(Announced(r.file, r.worker.hdr))
               /\ \/ q.worker.phase = "opening" /\ q.worker.sent > 0
                  \/ q.file # "sound" => e.kind = "path"
    PROVE  PlayerInv(r)
<1> DEFINE len == Len(q.events)
<1>1. /\ Typed(q) /\ PictureFits(q) /\ Lives(q) /\ InOrder(q) /\ Sent(q) /\ ChainFits(q)
      /\ CueLives(q) /\ q.events \in Seq(Events)
      BY DEF PlayerInv, Typed, Player
<1>2. MaxEvents \in Nat
      BY ScreenConstants DEF ScreenConstants
<1>3. /\ Len(r.events) = len + 1 /\ len \in Nat /\ r.events[len + 1] = e
      /\ DOMAIN q.events = 1 .. len /\ DOMAIN r.events = 1 .. len + 1
      /\ \A i \in 1 .. len : r.events[i] = q.events[i]
      BY <1>1, AppendedAre
<1>4. Typed(r)
      BY <1>2, <1>3 DEF Typed
<1> HIDE DEF len
<1>5. PictureFits(r)
  <2>1. \A i \in DOMAIN r.events : r.events[i].kind = "frame" => GoesWith(r.events[i].value, r.file)
    <3> SUFFICES ASSUME NEW i \in DOMAIN r.events, r.events[i].kind = "frame"
                 PROVE  GoesWith(r.events[i].value, r.file)
        OBVIOUS
    <3>1. CASE i = len + 1
          BY <1>3, <3>1 DEF SameScreen
    <3>2. CASE i # len + 1
      <4>1. i \in DOMAIN q.events /\ r.events[i] = q.events[i]
            BY <1>3, <3>2
      <4> QED BY <1>1, <4>1 DEF PictureFits, SameScreen
    <3> QED BY <3>1, <3>2
  <2> QED BY <1>1, <2>1 DEF PictureFits, SameScreen
<1>6. Lives(r) /\ ChainFits(r) /\ CueLives(r) /\ ErrorIsLast(r) /\ Sent(r)
      BY <1>1 DEF Lives, ChainFits, CueLives, ErrorIsLast, Sent, SameScreen
<1>7. InOrder(r)
  <2> SUFFICES ASSUME ~r.raced PROVE InOrder(r)
      BY DEF InOrder
  <2>1. ASSUME NEW n \in 1 .. len + 1, PathBefore(q, n)
        PROVE  PathBefore(r, n)
    <3>1. \A i \in 1 .. n - 1 : i \in 1 .. len
          BY <1>3
    <3> QED BY <1>3, <2>1, <3>1 DEF PathBefore, Before, SameScreen
  <2>2. ASSUME NEW n \in 1 .. len + 1, DurationBefore(q, n)
        PROVE  DurationBefore(r, n)
    <3>1. \A i \in 1 .. n - 1 : i \in 1 .. len
          BY <1>3
    <3> QED BY <1>3, <2>2, <3>1 DEF DurationBefore, Before, SameScreen
  <2>3. /\ PathBefore(r, len + 1) \/ e.kind = "path" => PathBefore(r, len + 2)
        /\ DurationBefore(r, len + 1) \/ e.kind = "duration" => DurationBefore(r, len + 2)
    <3>1. \A i \in 1 .. (len + 1) - 1 : i \in 1 .. (len + 2) - 1
          BY <1>3
    <3>2. len + 1 \in 1 .. (len + 2) - 1 /\ r.events[len + 1] = e
          BY <1>3
    <3> QED BY <3>1, <3>2 DEF PathBefore, DurationBefore, Before
  <2>4. len + 1 \in 1 .. len + 1 /\ Len(q.events) + 1 = len + 1 /\ Len(r.events) + 1 = len + 2
        BY <1>3 DEF len
  <2>5. ~q.raced
        OBVIOUS
  <2>6. q.worker.phase \in {"running", "parked"}
            => PathBefore(r, len + 1) /\ DurationBefore(r, len + 1)
    <3>1. q.worker.phase \in {"running", "parked"}
              => PathBefore(q, len + 1) /\ DurationBefore(q, len + 1)
          BY <1>1, <2>4, <2>5 DEF InOrder
    <3> QED BY <2>1, <2>2, <2>4, <3>1
  <2>7. q.worker.phase = "opening" /\ q.worker.sent > 0 /\ q.file # "sound"
            => PathBefore(r, len + 1)
    <3>1. q.worker.phase = "opening" /\ q.worker.sent > 0 /\ q.file # "sound"
              => PathBefore(q, len + 1)
          BY <1>1, <2>4, <2>5 DEF InOrder
    <3> QED BY <2>1, <2>4, <3>1
  <2>8. \A n \in DOMAIN r.events :
            r.events[n].kind = "frame" => PathBefore(r, n) /\ DurationBefore(r, n)
    <3> SUFFICES ASSUME NEW n \in DOMAIN r.events, r.events[n].kind = "frame"
                 PROVE  PathBefore(r, n) /\ DurationBefore(r, n)
        OBVIOUS
    <3>1. CASE n = len + 1
          BY <1>3, <2>6, <3>1
    <3>2. CASE n # len + 1
      <4>1. n \in DOMAIN q.events /\ r.events[n] = q.events[n] /\ n \in 1 .. len + 1
            BY <1>3, <3>2
      <4>2. PathBefore(q, n) /\ DurationBefore(q, n)
            BY <1>1, <2>5, <4>1 DEF InOrder
      <4> QED BY <2>1, <2>2, <4>1, <4>2
    <3> QED BY <3>1, <3>2
  <2>9. r.queue # <<>> => r.told # "none" /\ r.known
        BY <1>1, <2>5 DEF InOrder, SameScreen
  <2>10. r.worker.phase \in {"running", "parked"}
             => PathBefore(r, len + 2) /\ DurationBefore(r, len + 2)
        BY <2>3, <2>6, <2>7
  <2>11. r.worker.phase = "opening" /\ r.worker.sent > 0 /\ r.file # "sound"
             => PathBefore(r, len + 2)
        BY <2>3, <2>7 DEF SameScreen
  <2> QED BY <2>4, <2>8, <2>9, <2>10, <2>11 DEF InOrder
<1> QED BY <1>4, <1>5, <1>6, <1>7 DEF PlayerInv

\* A player whose worker moved and may have sent something.
Moved(q, sent, worker, raced) ==
    [q EXCEPT !.events = sent, !.worker = worker, !.raced = raced]
WorkerAt(w, phase, sent, late) == [w EXCEPT !.phase = phase, !.sent = sent, !.late = late]

LEMMA MovedKeeps ==
    ASSUME NEW q \in Player, NEW sent \in Seq(Events), NEW worker \in Workers,
           NEW raced \in BOOLEAN
    PROVE  LET r == Moved(q, sent, worker, raced) IN
           /\ r \in Player /\ SameScreen(r, q)
           /\ r.events = sent /\ r.worker = worker /\ r.raced = raced
BY DEF Player, SameScreen, Moved

\* What is known of a player whose worker is at work.
LEMMA AtWork ==
    ASSUME PlayerInv(p), p.worker.phase # "none"
    PROVE  /\ p \in Player /\ p.worker \in Workers /\ p.events \in Seq(Events)
           /\ p.raced \in BOOLEAN /\ p.worker.hdr \in BOOLEAN /\ p.worker.late \in BOOLEAN
           /\ p.worker.sent \in 0 .. 3 /\ p.worker.phase # "none" /\ p.state # "error"
           /\ p.worker.late => /\ p.events = <<>> /\ p.queue = <<>>
                               /\ ~p.raced => p.told # "none" /\ p.known
<1>1. p \in Player /\ InOrder(p) /\ Sent(p) /\ ErrorIsLast(p)
      BY DEF PlayerInv, Typed
<1>2. p.worker \in Workers /\ p.events \in Seq(Events) /\ p.raced \in BOOLEAN
      BY <1>1 DEF Player
<1>3. /\ p.worker.hdr \in BOOLEAN /\ p.worker.late \in BOOLEAN /\ p.worker.sent \in 0 .. 3
      BY <1>2 DEF Workers
<1>4. p.state # "error"
      BY <1>1 DEF ErrorIsLast, NoWorker
<1>5. p.worker.late => /\ p.events = <<>> /\ p.queue = <<>>
                       /\ ~p.raced => p.told # "none" /\ p.known
      BY <1>1 DEF Sent, InOrder
<1> QED BY <1>1, <1>2, <1>3, <1>4, <1>5

LEMMA LostIsEvent ==
    Event("lost", TRUE) \in Events /\ Event("lost", TRUE).kind = "lost"
BY DEF Event, Events

LEMMA OpenGoesOnStands ==
    ASSUME PlayerInv(p), OpenGoesOn
    PROVE  PlayerInv(p') /\ p'.shot = p.shot
<1> DEFINE w == p.worker
           all == Announced(p.file, w.hdr)
           n == w.sent + 1
           e == all[n]
           after == CASE n < Len(all) -> "opening"
                      [] e.kind = "fail" -> "none"
                      [] e.kind = "sound" -> "retired"
                      [] OTHER -> "running"
<1>1. /\ w.phase = "opening" /\ Len(p.events) < MaxEvents
      /\ \/ p' = [p EXCEPT !.events = Sends(e), !.worker.phase = after, !.worker.sent = @ + 1]
         \/ p' = [p EXCEPT !.events = Sends(Event("lost", TRUE)), !.worker.phase = "none"]
      BY DEF OpenGoesOn, Room
<1>2. /\ p \in Player /\ w \in Workers /\ p.events \in Seq(Events)
      /\ p.raced \in BOOLEAN /\ w.hdr \in BOOLEAN /\ w.late \in BOOLEAN
      /\ w.sent \in 0 .. 3 /\ p.state # "error"
      /\ w.late => /\ p.events = <<>> /\ p.queue = <<>>
                   /\ ~p.raced => p.told # "none" /\ p.known
      BY <1>1, AtWork
<1>3. w.sent < Len(all) /\ Len(all) \in Nat /\ Len(all) <= 3
  <2>1. w.sent < Len(all)
        BY <1>1 DEF PlayerInv, Sent
  <2>2. Len(all) <= 3
        BY AnnouncedIsLong
  <2>3. Len(all) \in Nat
        BY DEF Announced
  <2> QED BY <2>1, <2>2, <2>3
<1>4. n \in 1 .. Len(all) /\ n \in 0 .. 3 /\ (w.sent = 0 => n = 1)
  <2> HIDE DEF all, w
  <2> QED BY <1>2, <1>3
<1>5. /\ e \in Events /\ e.kind # "frame"
      /\ p.file # "sound" /\ w.sent = 0 => e.kind = "path"
      /\ n = Len(all) => \/ e.kind \in {"fail", "sound"}
                         \/ p.file # "sound" /\ e.kind = "duration"
  <2>1. /\ \A i \in 1 .. Len(all) : all[i] \in Events /\ all[i].kind # "frame"
        /\ p.file # "sound" => all[1].kind = "path"
        /\ \/ all[Len(all)].kind \in {"fail", "sound"}
           \/ p.file # "sound" /\ all[Len(all)].kind = "duration"
        BY <1>2, AnnouncedShape
  <2> HIDE DEF all, n
  <2> QED BY <1>4, <2>1
<1>6. /\ after \in {"none", "opening", "running", "retired"}
      /\ after = "opening" => n < Len(all)
      /\ after = "running" => n = Len(all) /\ p.file # "sound" /\ e.kind = "duration"
  <2> HIDE DEF all, n, e
  <2> QED BY <1>3, <1>4, <1>5
<1>7. Sends(e) = IF w.late THEN p.events ELSE Append(p.events, e)
      BY DEF Sends
<1>8. 2 <= Len(all)
      BY AnnouncedIsLong
<1>9. CASE p' = [p EXCEPT !.events = Sends(e), !.worker.phase = after, !.worker.sent = @ + 1]
  <2> DEFINE v == WorkerAt(w, after, n, w.late)
             r == Moved(p, Sends(e), v, p.raced)
  <2>1. v \in Workers /\ v.phase = after /\ v.sent = n /\ v.late = w.late /\ v.hdr = w.hdr
    <3>1. after \in {"none", "opening", "running", "parked", "retired"}
          BY ONLY <1>6
    <3>2. w \in Workers /\ n \in 0 .. 3 /\ w.late \in BOOLEAN
          BY <1>2, <1>4
    <3> HIDE DEF w, n, after
    <3> QED BY ONLY <3>1, <3>2 DEF Workers, WorkerAt
  <2>2. p' = r
    <3>1. n = p.worker.sent + 1
          OBVIOUS
    <3> HIDE DEF n, after, e
    <3> QED BY <1>2, <1>9, <3>1 DEF Player, Workers, Moved, WorkerAt
  <2>3. Sends(e) \in Seq(Events)
    <3> HIDE DEF e
    <3> QED BY <1>2, <1>5, <1>7
  <2> HIDE DEF v
  <2>4. /\ r \in Player /\ SameScreen(r, p)
        /\ r.events = Sends(e) /\ r.worker = v /\ r.raced = p.raced
        BY <1>2, <2>1, <2>3, MovedKeeps, SMTT(30)
  <2> HIDE DEF r
  <2>5. r.worker.phase = "opening" => r.worker.sent < Len(Announced(r.file, r.worker.hdr))
    <3>1. r.file = p.file
          BY <2>4 DEF SameScreen
    <3> QED BY <1>6, <2>1, <2>4, <3>1
  <2> HIDE DEF all, n, e, after
  <2>6. CASE w.late
    <3>1. ~r.raced => r.told # "none" /\ r.known
          BY <1>2, <2>4, <2>6 DEF SameScreen
    <3>2. r.events = <<>>
          BY <1>2, <1>7, <2>4, <2>6
    <3>3. PlayerInv(r)
          BY <1>2, <2>4, <2>5, <2>6, <3>1, <3>2, BareStands
    <3> QED BY <2>2, <2>4, <3>3 DEF SameScreen
  <2>7. CASE ~w.late
    <3>1. r.events = Append(p.events, e) /\ ~r.worker.late
          BY <1>7, <2>1, <2>4, <2>7
    <3>2. p.worker.phase = "opening" /\ (w.sent > 0 \/ w.sent = 0)
          BY <1>1, <1>2
    <3>3. r.worker.phase \in {"running", "parked"} =>
              /\ p.worker.phase = "opening" /\ p.worker.sent > 0 /\ p.file # "sound"
              /\ e.kind = "duration"
          BY <1>3, <1>4, <1>5, <1>6, <1>8, <2>1, <2>4, <3>2
    <3>4. p.worker.sent > 0 \/ (p.file # "sound" => e.kind = "path")
          BY <1>5, <3>2
    <3>5. PlayerInv(r)
          BY <1>1, <1>2, <1>5, <2>4, <2>5, <2>7, <3>1, <3>2, <3>3, <3>4, AppendedStands
    <3> QED BY <2>2, <2>4, <3>5 DEF SameScreen
  <2> QED BY <2>6, <2>7
<1>10. CASE p' = [p EXCEPT !.events = Sends(Event("lost", TRUE)), !.worker.phase = "none"]
  <2> DEFINE l == Event("lost", TRUE)
             v == WorkerAt(w, "none", w.sent, w.late)
             r == Moved(p, Sends(l), v, p.raced)
  <2>1. v \in Workers /\ v.phase = "none" /\ v.late = w.late
    <3>2. w \in Workers /\ w.sent \in 0 .. 3 /\ w.late \in BOOLEAN
          BY <1>2
    <3> HIDE DEF w
    <3> QED BY ONLY <3>2 DEF Workers, WorkerAt
  <2>2. p' = r
    <3> HIDE DEF l
    <3> QED BY <1>2, <1>10 DEF Player, Workers, Moved, WorkerAt, l
  <2>3. l \in Events /\ l.kind = "lost"
        BY LostIsEvent
  <2> HIDE DEF l, v
  <2>4. Sends(l) = IF w.late THEN p.events ELSE Append(p.events, l)
        BY DEF Sends
  <2>5. Sends(l) \in Seq(Events)
        BY <1>2, <2>3, <2>4
  <2>6. /\ r \in Player /\ SameScreen(r, p)
        /\ r.events = Sends(l) /\ r.worker = v /\ r.raced = p.raced
        BY <1>2, <2>1, <2>5, MovedKeeps
  <2> HIDE DEF r
  <2>7. CASE w.late
    <3>1. ~r.raced => r.told # "none" /\ r.known
          BY <1>2, <2>6, <2>7 DEF SameScreen
    <3>2. r.events = <<>>
          BY <1>2, <2>4, <2>6, <2>7
    <3>3. PlayerInv(r)
          BY <1>2, <2>1, <2>6, <2>7, <3>1, <3>2, BareStands
    <3> QED BY <2>2, <2>6, <3>3 DEF SameScreen
  <2>8. CASE ~w.late
    <3>1. r.events = Append(p.events, l) /\ ~r.worker.late /\ r.worker.phase = "none"
          BY <2>1, <2>4, <2>6, <2>8
    <3>2. PlayerInv(r)
          BY <1>1, <1>2, <2>3, <2>6, <2>8, <3>1, AppendedStands
    <3> QED BY <2>2, <2>6, <3>2 DEF SameScreen
  <2> QED BY <2>7, <2>8
<1> QED BY <1>1, <1>9, <1>10

LEMMA OpenRestartsStands ==
    ASSUME PlayerInv(p), OpenRestarts
    PROVE  PlayerInv(p') /\ p'.shot = p.shot
<1> DEFINE w == p.worker
           no == FALSE
           phase == w.phase
           sent == p.events
           v == WorkerAt(w, phase, 0, no)
           r == Moved(p, sent, v, no)
<1>1. /\ w.phase = "opening" /\ w.late
      /\ p' = [p EXCEPT !.worker.late = FALSE, !.worker.sent = 0, !.raced = FALSE]
      BY DEF OpenRestarts
<1>2. /\ p \in Player /\ w \in Workers /\ p.events \in Seq(Events) /\ p.state # "error"
      /\ p.events = <<>> /\ p.queue = <<>>
      BY <1>1, AtWork
<1>3. v \in Workers /\ v.phase = "opening" /\ v.sent = 0 /\ v.late = no /\ v.hdr = w.hdr
  <2>1. w \in Workers /\ no \in BOOLEAN /\ phase = "opening"
        BY <1>1, <1>2
  <2> HIDE DEF w, no, phase
  <2>2. v.phase = "opening" /\ v.sent = 0
        BY ONLY <2>1 DEF Workers, WorkerAt
  <2>3. v.late = no /\ v.hdr = w.hdr
        BY ONLY <2>1 DEF Workers, WorkerAt
  <2>4. v \in Workers
    <3> DEFINE zero == 0
    <3>1. zero \in 0 .. 3 /\ v = WorkerAt(w, phase, zero, no)
          OBVIOUS
    <3> HIDE DEF zero, v
    <3> QED BY ONLY <2>1, <3>1 DEF Workers, WorkerAt
  <2> QED BY <2>2, <2>3, <2>4
<1>4. p' = r
      BY <1>1, <1>2, ZenonT(60) DEF Player, Workers, Moved, WorkerAt
<1>9. sent \in Seq(Events) /\ no \in BOOLEAN
      BY <1>2
<1> HIDE DEF v, sent, no
<1>5. /\ r \in Player /\ SameScreen(r, p)
      /\ r.events = sent /\ r.worker = v /\ r.raced = no
      BY <1>2, <1>3, <1>9, MovedKeeps
<1> HIDE DEF r
<1>6. r.worker.sent < Len(Announced(r.file, r.worker.hdr))
  <2>1. 2 <= Len(Announced(r.file, r.worker.hdr))
        BY AnnouncedIsLong
  <2> QED BY <1>3, <1>5, <2>1
<1>7. /\ ~(r.worker.phase \in {"running", "parked"} \/ r.worker.late)
      /\ ~(r.worker.sent > 0)
      BY <1>3, <1>5 DEF no
<1>8. PlayerInv(r)
      BY <1>2, <1>5, <1>6, <1>7, BareStands DEF sent
<1> QED BY <1>4, <1>5, <1>8 DEF SameScreen

LEMMA TakeSeekStands ==
    ASSUME PlayerInv(p), TakeSeek
    PROVE  PlayerInv(p') /\ p'.shot = p.shot
<1> DEFINE w == p.worker
           v == WorkerAt(w, "running", w.sent, FALSE)
           sent == p.events
           r == Moved(p, sent, v, p.raced)
<1>1. /\ w.phase \in {"running", "parked"} /\ w.late
      /\ p' = [p EXCEPT !.worker.late = FALSE, !.worker.phase = "running"]
      BY DEF TakeSeek
<1>2. /\ p \in Player /\ w \in Workers /\ p.events \in Seq(Events) /\ p.state # "error"
      /\ p.raced \in BOOLEAN /\ p.events = <<>> /\ p.queue = <<>>
      /\ ~p.raced => p.told # "none" /\ p.known
  <2>1. w.phase # "none"
        BY <1>1
  <2> QED BY <1>1, <2>1, AtWork
<1>3. v \in Workers /\ v.phase = "running" /\ v.late = FALSE
      BY <1>2 DEF Workers, WorkerAt
<1>4. p' = r
      BY <1>1, <1>2 DEF Player, Workers, Moved, WorkerAt
<1>9. sent \in Seq(Events)
      BY <1>2
<1> HIDE DEF v, sent
<1>5. /\ r \in Player /\ SameScreen(r, p)
      /\ r.events = sent /\ r.worker = v /\ r.raced = p.raced
      BY <1>2, <1>3, <1>9, MovedKeeps
<1> HIDE DEF r
<1>6. ~r.raced => r.told # "none" /\ r.known
      BY <1>2, <1>5 DEF SameScreen
<1>7. r.worker.phase # "opening"
      BY <1>3, <1>5
<1>8. PlayerInv(r)
      BY <1>2, <1>5, <1>6, <1>7, BareStands DEF sent
<1> QED BY <1>4, <1>5, <1>8 DEF SameScreen

(* A worker that runs on sends an event, and stops or does not.             *)
LEMMA SendStands ==
    ASSUME PlayerInv(p), p.worker.phase = "running", ~p.worker.late, Room,
           NEW e \in Events, e.kind = "frame" => GoesWith(e.value, p.file),
           NEW phase \in {"running", "parked"},
           \/ p' = [p EXCEPT !.events = Sends(e), !.worker.phase = phase]
           \/ p' = [p EXCEPT !.events = Sends(e)] /\ phase = "running"
    PROVE  PlayerInv(p') /\ p'.shot = p.shot
<1> DEFINE w == p.worker
           v == WorkerAt(w, phase, w.sent, w.late)
           sent == Sends(e)
           r == Moved(p, sent, v, p.raced)
<1>1. /\ p \in Player /\ w \in Workers /\ p.events \in Seq(Events) /\ p.state # "error"
      /\ p.raced \in BOOLEAN
  <2>1. w.phase # "none"
        OBVIOUS
  <2> QED BY <2>1, AtWork
<1>2. v \in Workers /\ v.phase = phase /\ ~v.late
      BY <1>1 DEF Workers, WorkerAt
<1>3. Sends(e) = Append(p.events, e) /\ Len(p.events) < MaxEvents
      BY DEF Sends, Room
<1>4. p' = r
  <2>1. CASE p' = [p EXCEPT !.events = Sends(e), !.worker.phase = phase]
        BY <1>1, <2>1 DEF Player, Workers, Moved, WorkerAt
  <2>2. CASE p' = [p EXCEPT !.events = Sends(e)] /\ phase = "running"
    <3>1. v = w
          BY <1>1, <2>2 DEF Workers, WorkerAt
    <3> HIDE DEF v, sent
    <3> QED BY <1>1, <2>2, <3>1 DEF Player, Moved, sent
  <2> QED BY <2>1, <2>2
<1>5. sent \in Seq(Events)
      BY <1>1, <1>3
<1> HIDE DEF v, sent
<1>6. /\ r \in Player /\ SameScreen(r, p)
      /\ r.events = sent /\ r.worker = v /\ r.raced = p.raced
      BY <1>1, <1>2, <1>5, MovedKeeps
<1> HIDE DEF r
<1>7. ~r.worker.late /\ r.worker.phase # "opening"
      BY <1>2, <1>6
<1>8. PlayerInv(r)
      BY <1>1, <1>3, <1>6, <1>7, AppendedStands DEF sent
<1> QED BY <1>4, <1>6, <1>8 DEF SameScreen

LEMMA DecodeStands ==
    ASSUME PlayerInv(p), Decode
    PROVE  PlayerInv(p') /\ p'.shot = p.shot
<1> DEFINE mode == ModeFor(PathFor(Content(TagsOf(p.file)), p.worker.hdr))
<1>1. p.worker.phase = "running" /\ ~p.worker.late /\ Room
      BY DEF Decode
<1>2. p \in Player /\ p.worker \in Workers /\ p.worker.hdr \in BOOLEAN
  <2>1. p.worker.phase # "none"
        BY <1>1
  <2> QED BY <2>1, AtWork
<1>3. CASE removed
  <2>1. p' = [p EXCEPT !.events = Sends(Event("lost", TRUE)), !.worker.phase = "parked"]
        BY <1>3 DEF Decode
  <2> DEFINE e == Event("lost", TRUE)
  <2>2. e \in Events /\ e.kind # "frame"
        BY LostIsEvent
  <2> HIDE DEF e
  <2>3. p' = [p EXCEPT !.events = Sends(e), !.worker.phase = "parked"]
        BY <2>1 DEF e
  <2> QED BY <1>1, <2>2, <2>3, SendStands
<1>4. CASE ~removed
  <2> DEFINE e == Event("frame", mode)
  <2>1. p' = [p EXCEPT !.events = Sends(e)]
        BY <1>4 DEF Decode
  <2>2. mode \in Modes /\ GoesWith(mode, p.file)
        BY <1>2, StampGoesWith
  <2> HIDE DEF mode
  <2>3. e \in Events /\ e.value = mode
        BY <2>2 DEF Event, Events
  <2> HIDE DEF e
  <2> QED BY <1>1, <2>1, <2>2, <2>3, SendStands
<1> QED BY <1>3, <1>4

LEMMA FallBackStands ==
    ASSUME PlayerInv(p), FallBack
    PROVE  PlayerInv(p') /\ p'.shot = p.shot
<1> DEFINE e == Event("mode", TRUE)
<1>1. /\ p.worker.phase = "running" /\ ~p.worker.late /\ Room
      /\ p' = [p EXCEPT !.events = Sends(e)]
      BY DEF FallBack
<1>2. e \in Events /\ e.kind # "frame"
      BY DEF Event, Events
<1> HIDE DEF e
<1> QED BY <1>1, <1>2, SendStands

-----------------------------------------------------------------------------
(* The steps of the loop that draw.                                         *)

\* The ways an overlay is drawn or taken away.
Drawn(q, name, age, present, shown) ==
    [q EXCEPT !.overlay[name] = age, !.present = present, !.shown = shown]

LEMMA OverlayDrawn ==
    ASSUME NEW q, PlayerInv(q), NEW name \in Overlays, NEW age \in {"none", "live"},
           NEW present \in Flags, NEW shown \in Flags, name # "subtitle" \/ age = "live"
    PROVE  LET r == Drawn(q, name, age, present, shown) IN PlayerInv(r) /\ r.shot = q.shot
<1> DEFINE cu == q.cue
<1>1. q \in Player
      BY DEF PlayerInv, Typed
<1>2. cu \in Flags
      BY <1>1 DEF Player, Flags
<1>3. CueMay(q, name, age, cu)
      BY DEF CueMay
<1>4. Drawn(q, name, age, present, shown) = Redrawn(q, name, age, present, cu, shown)
      BY <1>1 DEF Player, Redrawn, Drawn
<1> HIDE DEF cu
<1> QED BY <1>2, <1>3, <1>4, OverlayStands

\* The cue is taken from the screen, or another one is drawn.
LEMMA CueDrawn ==
    ASSUME NEW q, PlayerInv(q)
    PROVE  \A r \in {[q EXCEPT !.overlay.subtitle = "none", !.cue = FALSE, !.present = TRUE],
                     [WithOverlay(q, "subtitle") EXCEPT !.cue = TRUE]} :
               PlayerInv(r) /\ r.shot = q.shot
<1> DEFINE sh == q.shown
           yes == TRUE
           no == FALSE
<1>1. q \in Player /\ "subtitle" \in Overlays
      BY DEF PlayerInv, Typed, Overlays
<1>2. sh \in Flags /\ yes \in Flags /\ no \in Flags
      BY <1>1 DEF Player, Flags
<1>3. CueMay(q, "subtitle", "none", no) /\ CueMay(q, "subtitle", "live", yes)
      BY DEF CueMay
<1>4. /\ [q EXCEPT !.overlay.subtitle = "none", !.cue = FALSE, !.present = TRUE]
             = Redrawn(q, "subtitle", "none", yes, no, sh)
      /\ [WithOverlay(q, "subtitle") EXCEPT !.cue = TRUE]
             = Redrawn(q, "subtitle", "live", yes, yes, sh)
      BY <1>1 DEF Player, Redrawn, WithOverlay
<1> HIDE DEF sh, yes, no
<1>5. LET r == Redrawn(q, "subtitle", "none", yes, no, sh) IN PlayerInv(r) /\ r.shot = q.shot
      BY <1>1, <1>2, <1>3, OverlayStands
<1>6. LET r == Redrawn(q, "subtitle", "live", yes, yes, sh) IN PlayerInv(r) /\ r.shot = q.shot
      BY <1>1, <1>2, <1>3, OverlayStands
<1> QED BY <1>4, <1>5, <1>6

\* What a step other than Render makes of a screenshot: nothing, or a request.
Kept(r, q) == PlayerInv(r) /\ r.shot \in {q.shot, "pending"}

\* The booleans the steps read beside the player.
Around == removed \in BOOLEAN /\ display \subseteq DisplayBits

(* The same of the player, whose flags stay or are set.                     *)
LEMMA DrawnKept ==
    ASSUME PlayerInv(p), NEW name \in Overlays, NEW age \in {"none", "live"},
           name # "subtitle" \/ age = "live",
           NEW r, \/ r = [p EXCEPT !.overlay[name] = age, !.present = TRUE]
                  \/ r = [p EXCEPT !.overlay[name] = age]
                  \/ r = [p EXCEPT !.overlay[name] = age, !.shown = FALSE, !.present = TRUE]
                  \/ r = [p EXCEPT !.shown = TRUE, !.overlay[name] = age]
    PROVE  Kept(r, p)
<1> DEFINE pr == p.present
           sh == p.shown
           yes == TRUE
           no == FALSE
<1>1. p \in Player
      BY DEF PlayerInv, Typed
<1>2. pr \in Flags /\ sh \in Flags /\ yes \in Flags /\ no \in Flags
      BY <1>1 DEF Player, Flags
<1>3. \/ r = Drawn(p, name, age, yes, sh)
      \/ r = Drawn(p, name, age, pr, sh)
      \/ r = Drawn(p, name, age, yes, no)
      \/ r = Drawn(p, name, age, pr, yes)
  <2>1. /\ Drawn(p, name, age, yes, sh) = [p EXCEPT !.overlay[name] = age, !.present = TRUE]
        /\ Drawn(p, name, age, pr, sh) = [p EXCEPT !.overlay[name] = age]
        /\ Drawn(p, name, age, yes, no)
               = [p EXCEPT !.overlay[name] = age, !.shown = FALSE, !.present = TRUE]
        /\ Drawn(p, name, age, pr, yes) = [p EXCEPT !.shown = TRUE, !.overlay[name] = age]
        BY <1>1 DEF Player, Drawn
  <2> QED BY <2>1
<1> HIDE DEF pr, sh, yes, no
<1>4. ASSUME NEW a \in Flags, NEW b \in Flags
      PROVE  Kept(Drawn(p, name, age, a, b), p)
      BY OverlayDrawn DEF Kept
<1> QED BY <1>2, <1>3, <1>4

LEMMA WithOverlayKept ==
    ASSUME PlayerInv(p), NEW name \in Overlays
    PROVE  Kept(WithOverlay(p, name), p)
<1> DEFINE r == WithOverlay(p, name)
<1>1. r = [p EXCEPT !.overlay[name] = "live", !.present = TRUE]
      BY DEF WithOverlay
<1> HIDE DEF r
<1>2. Kept(r, p)
      BY <1>1, DrawnKept
<1> QED BY <1>2 DEF r

LEMMA PresentAsked ==
    ASSUME NEW q, PlayerInv(q)
    PROVE  /\ Kept([q EXCEPT !.present = TRUE], q)
           /\ Kept([q EXCEPT !.shot = "pending", !.present = TRUE], q)
<1> DEFINE dr == q.drawn
           sh == q.shot
           yes == TRUE
           r(s) == Presented(q, yes, dr, s)
<1>1. q \in Player
      BY DEF PlayerInv, Typed
<1>2. dr \in Flags /\ yes \in Flags /\ sh \in {"none", "pending", "taken"} /\ sh = q.shot
      BY <1>1 DEF Player, Flags
<1>3. /\ [q EXCEPT !.present = TRUE] = r(sh)
      /\ [q EXCEPT !.shot = "pending", !.present = TRUE] = r("pending")
      BY <1>1 DEF Player, Presented
<1> HIDE DEF dr, sh, yes
<1>4. ASSUME NEW s \in {"none", "pending", "taken"}
      PROVE  PlayerInv(r(s)) /\ r(s).shot = s
      BY <1>2, PresentStands, ZenonT(60)
<1> HIDE DEF r
<1>5. PlayerInv(r(sh)) /\ r(sh).shot = sh /\ PlayerInv(r("pending")) /\ r("pending").shot = "pending"
      BY <1>2, <1>4
<1> QED BY <1>2, <1>3, <1>5 DEF Kept

(* What the user does.                                                      *)
LEMMA CommandKept ==
    ASSUME PlayerInv(p), Around,
           \/ NoCommand \/ Seek \/ Screenshot \/ ShowHelp \/ ShowRecent \/ ShowVolume
           \/ \E file \in Files : Open(file)
           \/ \E name \in {"help", "recent"} : Hide(name)
    PROVE  Kept(p', p)
<1>1. Kept(p, p)
      BY DEF Kept
<1>2. /\ "help" \in Overlays /\ "recent" \in Overlays /\ "volume" \in Overlays
      /\ "help" # "subtitle" /\ "recent" # "subtitle" /\ "volume" # "subtitle"
      BY DEF Overlays
<1>3. \A name \in Overlays : Kept(WithOverlay(p, name), p)
      BY WithOverlayKept
<1>4. CASE NoCommand
      BY <1>1, <1>4 DEF NoCommand
<1>5. CASE Seek
      BY <1>5, SoughtStands DEF Seek, Around, Kept
<1>6. CASE Screenshot
      BY <1>6, PresentAsked DEF Screenshot
<1>7. CASE ShowHelp
  <2>1. \/ p' = p \/ p' = WithOverlay(p, "help") \/ p' = [p EXCEPT !.present = TRUE]
        BY <1>7 DEF ShowHelp, Ends
  <2> QED BY <1>1, <1>2, <1>3, <2>1, PresentAsked
<1>8. CASE ShowRecent
  <2>1. p' = p \/ p' = WithOverlay(p, "recent")
        BY <1>8 DEF ShowRecent, Ends
  <2> QED BY <1>1, <1>2, <1>3, <2>1
<1>9. CASE ShowVolume
  <2>1. p' = WithOverlay(p, "volume") \/ p' = [p EXCEPT !.overlay["volume"] = "none"]
        BY <1>9 DEF ShowVolume
  <2> QED BY <1>2, <1>3, <2>1, DrawnKept
<1>10. CASE \E file \in Files : Open(file)
      BY <1>10, OpenedStands DEF Open, Around, Kept
<1>11. CASE \E name \in {"help", "recent"} : Hide(name)
  <2>1. PICK name \in {"help", "recent"} :
            p' = [p EXCEPT !.overlay[name] = "none", !.present = TRUE]
        BY <1>11 DEF Hide
  <2>2. name \in Overlays /\ name # "subtitle"
        BY <1>2
  <2> QED BY <2>1, <2>2, DrawnKept
<1> QED BY <1>4, <1>5, <1>6, <1>7, <1>8, <1>9, <1>10, <1>11

(* A change of state that neither begins nor ends in an error.              *)
LEMMA StateStands ==
    ASSUME NEW q, PlayerInv(q), q.state # "error",
           NEW state \in {"opening", "seeking", "playing"}
    PROVE  Kept([q EXCEPT !.state = state], q)
<1> DEFINE r == [q EXCEPT !.state = state]
<1>1. q \in Player /\ ChainFits(q) /\ q.chain.age = "live"
      BY DEF PlayerInv, Typed, Lives
<1>2. /\ r \in Player /\ r.overlay = q.overlay /\ r.cue = q.cue /\ r.shot = q.shot
      /\ r.state # "error" /\ r.path = q.path /\ r.chain = q.chain
      BY <1>1 DEF Player
<1>3. SameStream(r, q)
      BY <1>1 DEF Player, SameStream
<1> HIDE DEF r
<1>4. ChainFits(r) /\ r.chain.age = "live"
      BY <1>1, <1>2 DEF ChainFits
<1>5. PlayerInv(r)
      BY <1>2, <1>3, <1>4, RedrawnStands
<1> QED BY <1>2, <1>5 DEF r, Kept

(* The picture of the queue is shown.                                       *)
LEMMA DueStands ==
    ASSUME PlayerInv(p), Due
    PROVE  Kept(p', p)
<1> DEFINE f == Head(p.queue)
           r == [p EXCEPT !.picture = f, !.queue = <<>>, !.present = TRUE, !.drawn = FALSE]
<1>1. /\ Typed(p) /\ p \in Player /\ ChainFits(p) /\ PictureFits(p) /\ Lives(p) /\ InOrder(p)
      /\ Sent(p) /\ CueLives(p) /\ ErrorIsLast(p) /\ Len(p.events) <= MaxEvents
      BY DEF PlayerInv, Typed
<1>2. p' = r /\ p.queue # <<>>
      BY DEF Due
<1>3. f \in Frames /\ GoesWith(f.mode, p.file) /\ f.age = "live" /\ f \in Pictures
  <2>1. PICK g \in Frames : p.queue = <<g>>
        BY <1>1, <1>2 DEF Player, Queues
  <2>2. 1 \in DOMAIN p.queue /\ p.queue[1] = f /\ f = g
        BY <2>1
  <2> HIDE DEF f
  <2> QED BY <1>1, <2>2 DEF PictureFits, Lives, Pictures
<1> HIDE DEF f
<1>4. /\ r \in Player /\ r.picture = f /\ r.queue = <<>> /\ r.state = p.state
      /\ r.file = p.file /\ r.path = p.path /\ r.chain = p.chain /\ r.overlay = p.overlay
      /\ r.cue = p.cue /\ r.known = p.known /\ r.told = p.told /\ r.worker = p.worker
      /\ r.events = p.events /\ r.raced = p.raced /\ r.shot = p.shot
      BY <1>1, <1>3, Empties DEF Player
<1> HIDE DEF r
<1>5. DOMAIN r.queue = {}
      BY <1>4
<1>6. Typed(r) /\ ChainFits(r)
      BY <1>1, <1>4 DEF Typed, ChainFits
<1>7. PictureFits(r) /\ Lives(r)
      BY <1>1, <1>3, <1>4, <1>5 DEF PictureFits, Lives
<1>8. InOrder(r)
      BY <1>1, <1>4 DEF InOrder, PathBefore, DurationBefore, Before
<1>9. Sent(r) /\ CueLives(r)
      BY <1>1, <1>4 DEF Sent, CueLives
<1>10. ErrorIsLast(r)
      BY <1>1, <1>2, <1>4 DEF ErrorIsLast
<1> QED BY <1>2, <1>4, <1>6, <1>7, <1>8, <1>9, <1>10 DEF PlayerInv, Kept

(* A resize, and the chain it leaves.                                       *)
LEMMA ResizeStands ==
    ASSUME PlayerInv(p), Around, Resize
    PROVE  Kept(p', p)
<1> DEFINE c == [p EXCEPT !.chain = NoChain]
           b == Rebuilt(c, removed)
           present == p.present \/ b.chain # NoChain
           r == [b EXCEPT !.present = present]
<1>1. p \in Player /\ Typed(p)
      BY DEF PlayerInv, Typed
<1>2. \/ p' = [p EXCEPT !.present = TRUE, !.overlay.idle = IF p.shown THEN @ ELSE "live"]
      \/ p' = [b EXCEPT !.present = @ \/ b.chain # NoChain]
      BY DEF Resize
<1>3. CASE p' = [p EXCEPT !.present = TRUE, !.overlay.idle = IF p.shown THEN @ ELSE "live"]
  <2>1. p' = [p EXCEPT !.present = TRUE] \/ p' = WithOverlay(p, "idle")
    <3>1. CASE p.shown
      <4>1. p' = [p EXCEPT !.present = TRUE, !.overlay.idle = p.overlay.idle]
            BY <1>3, <3>1
      <4> DEFINE o == [p.overlay EXCEPT !["idle"] = p.overlay["idle"]]
      <4>2. o = p.overlay
            BY <1>1 DEF Player
      <4>3. p' = [p EXCEPT !.present = TRUE, !.overlay = o]
            BY <1>1, <4>1 DEF Player
      <4> HIDE DEF o
      <4> QED BY <1>1, <4>2, <4>3 DEF Player
    <3>2. CASE ~p.shown
          BY <1>1, <1>3, <3>2 DEF Player, WithOverlay
    <3> QED BY <3>1, <3>2
  <2>2. "idle" \in Overlays /\ "idle" # "subtitle"
        BY DEF Overlays
  <2> QED BY <2>1, <2>2, PresentAsked, WithOverlayKept
<1>4. CASE p' = [b EXCEPT !.present = @ \/ b.chain # NoChain]
  <2>1. c = WithChain(p, p.path, NoChain) /\ p.path \in Paths
        BY <1>1, PathSame
  <2> HIDE DEF c
  <2>2. Typed(c) /\ SameBehind(c, p)
        BY <1>1, <2>1, ChainSet, Empties
  <2>3. Typed(b) /\ SameBehind(b, c) /\ ChainFits(b) /\ b.chain.age = "live"
        BY <2>2, RebuiltKeeps DEF Around
  <2>4. b \in Player /\ b.present = p.present
    <3>1. b \in Player
          BY <2>3 DEF Typed
    <3>2. c.present = p.present
          BY <1>1, <2>1 DEF WithChain, Player
    <3>3. b.present = c.present
          BY <2>2 DEF Rebuilt, Typed, Player
    <3> QED BY <3>1, <3>2, <3>3
  <2>5. p' = r /\ present \in BOOLEAN
        BY <1>4, <2>4 DEF Player
  <2> HIDE DEF b, present
  <2>6. /\ r \in Player /\ r.state = b.state /\ r.file = b.file /\ r.path = b.path
        /\ r.chain = b.chain /\ r.overlay = b.overlay /\ r.cue = b.cue /\ r.shot = b.shot
        BY <2>4, <2>5 DEF Player
  <2>7. SameStream(r, b)
        BY <2>4 DEF Player, SameStream
  <2> HIDE DEF r
  <2>8. SameStream(r, p)
        BY <2>2, <2>3, <2>7 DEF SameStream, SameBehind, SameDecoding
  <2>9. /\ r.state = p.state /\ r.overlay = p.overlay /\ r.cue = p.cue /\ r.shot = p.shot
        BY <2>2, <2>3, <2>6 DEF SameBehind, SameDecoding
  <2>10. ChainFits(r) /\ r.chain.age = "live"
        BY <2>3, <2>6 DEF ChainFits
  <2>11. PlayerInv(r)
        BY <2>6, <2>8, <2>9, <2>10, RedrawnStands
  <2> QED BY <2>5, <2>9, <2>11 DEF Kept
<1> QED BY <1>2, <1>3, <1>4

(* What is left of an iteration, up to the presentation.                    *)
LEMMA IterationKept ==
    ASSUME PlayerInv(p), Around,
           Timeline \/ Top \/ DrainVideo \/ DrainAudio \/ DrainEnds \/ NotDue \/ Due \/ Subtitle
    PROVE  Kept(p', p)
<1>1. Kept(p, p)
      BY DEF Kept
<1>2. /\ "timeline" \in Overlays /\ "idle" \in Overlays /\ "subtitle" \in Overlays
      /\ "timeline" # "subtitle" /\ "idle" # "subtitle"
      BY DEF Overlays
<1>3. CASE Timeline
  <2>1. \/ p' = p \/ p' = WithOverlay(p, "timeline")
        \/ p' = [p EXCEPT !.overlay["timeline"] = "none", !.present = TRUE]
        BY <1>3 DEF Timeline, Ends
  <2> QED BY <1>1, <1>2, <2>1, WithOverlayKept, DrawnKept
<1>4. CASE Top
  <2>1. \/ p' = p
        \/ \E age \in {"none", "live"} :
               p' = [p EXCEPT !.overlay["idle"] = age, !.shown = FALSE, !.present = TRUE]
        BY <1>4 DEF Top
  <2> QED BY <1>1, <1>2, <2>1, WithOverlayKept, DrawnKept
<1>5. CASE DrainVideo
  <2>1. p.events # <<>> /\ p.queue = <<>>
        /\ (p' = Recovered(p) \/ p' = Handled(p, Head(p.events)))
        BY <1>5 DEF DrainVideo, Recovers
  <2> QED BY <2>1, HandledStands, RecoveredStands DEF Around, Kept
<1>6. CASE DrainAudio
      BY <1>6, StateStands DEF DrainAudio
<1>7. CASE DrainEnds \/ NotDue
      BY <1>1, <1>7 DEF DrainEnds, NotDue
<1>8. CASE Due
      BY <1>8, DueStands
<1>9. CASE Subtitle
  <2>1. \/ p' = p
        \/ p' = [p EXCEPT !.overlay.subtitle = "none", !.cue = FALSE, !.present = TRUE]
        \/ p' = [WithOverlay(p, "subtitle") EXCEPT !.cue = TRUE]
        BY <1>9 DEF Subtitle, Ends
  <2> QED BY <1>1, <2>1, CueDrawn DEF Kept
<1> QED BY <1>3, <1>4, <1>5, <1>6, <1>7, <1>8, <1>9

-----------------------------------------------------------------------------
(* The presentation.                                                        *)

LEMMA ShotSet ==
    ASSUME NEW q, PlayerInv(q), NEW s \in {"none", "pending", "taken"}
    PROVE  LET r == [q EXCEPT !.shot = s] IN
           PlayerInv(r) /\ r.shot = s /\ r.picture = q.picture /\ r.chain = q.chain
<1> DEFINE pr == q.present
           dr == q.drawn
           r == [q EXCEPT !.shot = s]
<1>1. q \in Player
      BY DEF PlayerInv, Typed
<1>2. pr \in Flags /\ dr \in Flags
      BY <1>1 DEF Player, Flags
<1>3. r = Presented(q, pr, dr, s)
      BY <1>1 DEF Player, Presented
<1>4. r.picture = q.picture /\ r.chain = q.chain
      BY <1>1 DEF Player
<1> HIDE DEF pr, dr, r
<1>5. PlayerInv(r) /\ r.shot = s
      BY <1>2, <1>3, PresentStands, ZenonT(60)
<1> QED BY <1>4, <1>5 DEF r

LEMMA PresentedStands ==
    ASSUME NEW q, PlayerInv(q), NEW present \in Flags, NEW drawn \in Flags
    PROVE  LET r == [q EXCEPT !.present = present, !.drawn = drawn] IN
           PlayerInv(r) /\ r.shot = q.shot /\ r.picture = q.picture /\ r.chain = q.chain
<1> DEFINE s == q.shot
           r == [q EXCEPT !.present = present, !.drawn = drawn]
<1>1. q \in Player
      BY DEF PlayerInv, Typed
<1>2. s \in {"none", "pending", "taken"}
      BY <1>1 DEF Player
<1>3. r = Presented(q, present, drawn, s)
      BY <1>1 DEF Player, Presented
<1>4. r.picture = q.picture /\ r.chain = q.chain
      BY <1>1 DEF Player
<1>5. s = q.shot
      OBVIOUS
<1> HIDE DEF s, r
<1>6. PlayerInv(r) /\ r.shot = s
      BY <1>2, <1>3, PresentStands
<1> QED BY <1>4, <1>5, <1>6 DEF r

\* What the presenter remembers, and what becomes of a request for a screenshot.
LEMMA RememberedStands ==
    ASSUME PlayerInv(p)
    PROVE  PlayerInv(Remembered(p))
<1> DEFINE m == Remembered(p)
<1>1. m = p \/ m = [p EXCEPT !.shown = TRUE, !.overlay["idle"] = "none"]
      BY DEF Remembered
<1>2. "idle" \in Overlays /\ "idle" # "subtitle"
      BY DEF Overlays
<1> HIDE DEF m
<1>3. PlayerInv(m)
      BY <1>1, <1>2, DrawnKept DEF Kept
<1> QED BY <1>3 DEF m

LEMMA ShotStands ==
    ASSUME NEW q, PlayerInv(q)
    PROVE  PlayerInv(Taken(q)) /\ PlayerInv(Dropped(q))
<1> DEFINE s == IF q.shot = "pending" THEN "taken" ELSE q.shot
<1>1. q \in Player
      BY DEF PlayerInv, Typed
<1>2. s \in {"none", "pending", "taken"}
      BY <1>1 DEF Player
<1>3. Taken(q) = [q EXCEPT !.shot = s]
      BY <1>1 DEF Taken, Player
<1> HIDE DEF s
<1>4. PlayerInv([q EXCEPT !.shot = s])
      BY <1>2, ShotSet
<1>5. PlayerInv([q EXCEPT !.shot = "none"])
      BY ShotSet
<1> QED BY <1>3, <1>4, <1>5 DEF Dropped

LEMMA PresentFailsStands ==
    ASSUME NEW q, PlayerInv(q), Around, PresentFails(q)
    PROVE  PlayerInv(p')
<1> DEFINE d == Dropped(q)
<1>1. PlayerInv(d)
      BY ShotStands
<1>2. p' = Recovered(d)
      BY DEF PresentFails
<1> HIDE DEF d
<1> QED BY <1>1, <1>2, RecoveredStands DEF Around

LEMMA RenderStands ==
    ASSUME PlayerInv(p), Around, Render
    PROVE  PlayerInv(p')
<1> DEFINE m == Remembered(p)
<1>1. p' = p \/ PresentFails(m) \/ p' = Taken(m)
      BY DEF Render
<1>2. PlayerInv(m)
      BY RememberedStands
<1> HIDE DEF m
<1> QED BY <1>1, <1>2, ShotStands, PresentFailsStands

LEMMA DrawStands ==
    ASSUME PlayerInv(p), Around, Draw
    PROVE  PlayerInv(p')
<1>1. p' = p \/ PresentFails(p)
      BY DEF Draw
<1> QED BY <1>1, PresentFailsStands

LEMMA PresentStepStands ==
    ASSUME PlayerInv(p), Around, Present
    PROVE  PlayerInv(p')
<1> DEFINE d == Dropped(p)
           drawn == (p.picture # NoPicture)
           no == FALSE
<1>1. PresentFails(p) \/ p' = [d EXCEPT !.present = no, !.drawn = drawn]
      BY DEF Present
<1>2. PlayerInv(d)
      BY ShotStands
<1>3. drawn \in Flags /\ no \in Flags
      BY DEF Flags
<1> HIDE DEF d, drawn, no
<1>4. CASE p' = [d EXCEPT !.present = no, !.drawn = drawn]
      BY <1>2, <1>3, <1>4, PresentedStands
<1> QED BY <1>1, <1>4, PresentFailsStands

-----------------------------------------------------------------------------
(* The inductive invariant and what follows from it.                        *)

Beside ==
    /\ pc \in {"input", "timeline", "top", "drain", "error", "advance", "subtitle",
               "render", "draw", "present", "over"}
    /\ removed \in BOOLEAN /\ refuses \subseteq {"device", "chain"} /\ display \subseteq DisplayBits
    /\ commands \in 0 .. MaxCommands /\ faults \in 0 .. MaxFaults

ScreenInv == Beside /\ PlayerInv(p)

LEMMA InitScreen == Init => ScreenInv
<1> SUFFICES ASSUME Init PROVE ScreenInv
    OBVIOUS
<1> USE DEF Init
<1>1. Beside
  <2>1. MaxCommands \in Nat /\ MaxFaults \in Nat
        BY ScreenConstants DEF ScreenConstants
  <2>2. /\ pc = "input" /\ removed = FALSE /\ refuses = {} /\ display \subseteq DisplayBits
        /\ commands = 0 /\ faults = 0
        BY ScreenConstants DEF ScreenConstants
  <2>3. commands \in 0 .. MaxCommands /\ faults \in 0 .. MaxFaults
        BY ONLY <2>1, <2>2
  <2> QED BY ONLY <2>2, <2>3 DEF Beside
<1> DEFINE o == [n \in Overlays |-> IF n = "idle" THEN "live" ELSE "none"]
<1>2. o \in [Overlays -> Ages \cup {"none"}] /\ \A n \in {"subtitle", "timeline", "volume"} : o[n] = "none"
      BY DEF Overlays, Ages
<1>3. /\ Chain("sdr") \in Chains /\ Chain("sdr").kind = KindFor("sdr")
      /\ Chain("sdr").age = "live" /\ "sdr" \in Paths
      BY DEF Chain, Chains, Kinds, KindFor, Ages, Paths
<1> DEFINE c == Chain("sdr")
<1>4. /\ p.state = "idle" /\ p.path = "sdr" /\ p.chain = c /\ p.picture = NoPicture
      /\ p.queue = <<>> /\ p.events = <<>> /\ p.overlay = o /\ p.cue = FALSE
      /\ p.worker = NoWorker
      OBVIOUS
<1>5. p \in Player
  <2>1. p = [state |-> "idle", file |-> "none", path |-> "sdr", chain |-> c,
            picture |-> NoPicture, queue |-> <<>>, shown |-> FALSE, present |-> TRUE,
            overlay |-> o, cue |-> FALSE, drawn |-> FALSE, known |-> FALSE, told |-> "none",
            soft |-> FALSE, worker |-> NoWorker, events |-> <<>>, raced |-> FALSE,
            shot |-> "none"]
        OBVIOUS
  <2> HIDE DEF o, c
  <2> QED BY ONLY <1>2, <1>3, <2>1, Empties DEF Player, c
<1> HIDE DEF o, c
<1>6. Typed(p)
      BY <1>4, <1>5, Empties DEF Typed
<1>7. ChainFits(p) /\ p.chain.age = "live"
      BY <1>3, <1>4 DEF ChainFits, c
<1>8. Empty(p)
      BY <1>2, <1>4, <1>6, <1>7 DEF Empty
<1>9. p.state # "error" /\ ~p.cue /\ p.worker.phase = "none" /\ p.worker.sent = 0 /\ ~p.worker.late
      BY <1>4 DEF NoWorker
<1>10. PlayerInv(p)
      BY <1>8, <1>9, EmptyStands
<1> QED BY <1>1, <1>10 DEF ScreenInv

\* What a step keeps of the booleans and the bounds.
LEMMA BesideKept ==
    ASSUME Beside, [Next]_vars
    PROVE  Beside'
<1>1. MaxCommands \in Nat /\ MaxFaults \in Nat
      BY ScreenConstants DEF ScreenConstants
<1>2. ASSUME commands' = commands + 1, commands < MaxCommands
      PROVE  commands' \in 0 .. MaxCommands
      BY <1>1, <1>2 DEF Beside
<1>3. ASSUME faults' = faults + 1, faults < MaxFaults
      PROVE  faults' \in 0 .. MaxFaults
      BY <1>1, <1>3 DEF Beside
<1> DEFINE Steps == {"input", "timeline", "top", "drain", "error", "advance", "subtitle",
                     "render", "draw", "present", "over"}
<1>4. ASSUME UNCHANGED <<refuses, display, faults>>, pc' \in Steps, removed' \in BOOLEAN,
             commands' \in 0 .. MaxCommands
      PROVE  Beside'
      BY <1>4 DEF Beside
<1>5. CASE UNCHANGED vars
      BY <1>5 DEF vars, Beside
<1>6. ASSUME UNCHANGED <<refuses, display, faults>>,
             \/ NoCommand \/ Seek \/ Screenshot \/ ShowHelp \/ ShowRecent \/ ShowVolume
             \/ \E file \in Files : Open(file)
             \/ \E name \in {"help", "recent"} : Hide(name)
      PROVE  Beside'
  <2>1. pc' \in Steps /\ removed' \in BOOLEAN
    <3>1. pc' \in {pc, "timeline", "over"} /\ removed' = removed
          BY <1>6 DEF NoCommand, Seek, Screenshot, ShowHelp, ShowRecent, ShowVolume, Open, Hide, Ends
    <3> QED BY <3>1 DEF Beside
  <2>2. commands' = commands \/ (commands' = commands + 1 /\ commands < MaxCommands)
        BY <1>6 DEF NoCommand, Seek, Screenshot, ShowHelp, ShowRecent, ShowVolume, Open, Hide, Command
  <2>3. commands' \in 0 .. MaxCommands
        BY <1>2, <2>2 DEF Beside
  <2> QED BY <1>4, <1>6, <2>1, <2>3
<1>7. ASSUME UNCHANGED <<refuses, display, faults>>,
             \/ Timeline \/ Top \/ DrainVideo \/ DrainAudio \/ DrainEnds
             \/ NotDue \/ Due \/ Subtitle \/ Render \/ Draw \/ Present
      PROVE  Beside'
  <2>1. commands' = commands
        BY <1>7 DEF Timeline, Top, DrainVideo, DrainAudio, DrainEnds, NotDue, Due, Subtitle, Render,
                    Draw, Present, PresentFails
  <2>2. pc' \in {pc, "input", "top", "drain", "error", "advance", "subtitle", "render", "draw",
                   "present", "over"}
        BY <1>7 DEF Timeline, Top, DrainVideo, DrainAudio, DrainEnds, NotDue, Due, Subtitle,
                    Render, Draw, Present, PresentFails, Ends
  <2>3. removed' = removed \/ \E q : removed' = (removed /\ ~Replaced(q))
        BY <1>7 DEF Timeline, Top, DrainVideo, DrainAudio, DrainEnds, NotDue, Due, Subtitle,
                    Render, Draw, Present, PresentFails, Ends, Recovers
  <2>4. removed' \in BOOLEAN
        BY <2>3 DEF Beside
  <2> QED BY <1>4, <1>7, <2>1, <2>2, <2>4 DEF Beside
<1>8. CASE Resize
      BY <1>3, <1>8 DEF Resize, Beside
<1>9. CASE Worker
      BY <1>9 DEF Worker, OpenGoesOn, OpenRestarts, TakeSeek, Decode, WorkerStep, Beside
<1>10. CASE FallBack
      BY <1>3, <1>10 DEF FallBack, WorkerStep, Beside
<1>11. CASE Remove
      BY <1>3, <1>11 DEF Remove, Fault, Beside
<1>12. CASE Refuse
      BY <1>3, <1>12 DEF Refuse, Fault, Beside
<1>13. CASE Accept
      BY <1>13 DEF Accept, Beside
<1>14. CASE SwitchDisplay
      BY <1>3, <1>14 DEF SwitchDisplay, Fault, Beside
<1>15. CASE Over
      BY <1>5, <1>15 DEF Over
<1> QED BY <1>5, <1>6, <1>7, <1>8, <1>9, <1>10, <1>11, <1>12, <1>13, <1>14, <1>15 DEF Next, Loop

LEMMA StepScreen ==
    ASSUME ScreenInv, [Next]_vars
    PROVE  ScreenInv'
<1>1. PlayerInv(p) /\ Around /\ Beside'
      BY BesideKept DEF ScreenInv, Beside, Around
<1>2. CASE \/ NoCommand \/ Seek \/ Screenshot \/ ShowHelp \/ ShowRecent \/ ShowVolume
           \/ \E file \in Files : Open(file)
           \/ \E name \in {"help", "recent"} : Hide(name)
      BY <1>1, <1>2, CommandKept DEF ScreenInv, Kept
<1>3. CASE Timeline \/ Top \/ DrainVideo \/ DrainAudio \/ DrainEnds \/ NotDue \/ Due \/ Subtitle
      BY <1>1, <1>3, IterationKept DEF ScreenInv, Kept
<1>4. CASE Render \/ Draw \/ Present
      BY <1>1, <1>4, RenderStands, DrawStands, PresentStepStands DEF ScreenInv
<1>5. CASE Resize
      BY <1>1, <1>5, ResizeStands DEF ScreenInv, Kept
<1>6. CASE Worker \/ FallBack
      BY <1>1, <1>6, OpenGoesOnStands, OpenRestartsStands, TakeSeekStands, DecodeStands,
         FallBackStands DEF Worker, ScreenInv
<1>7. CASE Remove \/ Refuse \/ Accept \/ SwitchDisplay \/ Over \/ UNCHANGED vars
  <2>1. p' = p
        BY <1>7 DEF Remove, Refuse, Accept, SwitchDisplay, Over, Fault, vars
  <2> QED BY <1>1, <2>1 DEF ScreenInv
<1> QED BY <1>2, <1>3, <1>4, <1>5, <1>6, <1>7 DEF Next, Loop

LEMMA QueueOfOne ==
    ASSUME NEW queue \in Queues
    PROVE  queue \in Seq(Frames) /\ Len(queue) <= 1
<1>1. CASE queue = <<>>
      BY <1>1
<1>2. ASSUME NEW f \in Frames, queue = <<f>>
      PROVE  queue \in Seq(Frames) /\ Len(queue) <= 1
  <2> HIDE DEF Frames
  <2> QED BY <1>2
<1> QED BY <1>1, <1>2 DEF Queues

(* What the invariant says of the properties.                               *)
LEMMA RightPathFollows ==
    ASSUME ScreenInv
    PROVE  RightPath
<1>1. /\ PlayerInv(p) /\ Typed(p) /\ p \in Player /\ Len(p.events) <= MaxEvents
      /\ ChainFits(p) /\ PictureFits(p) /\ InOrder(p)
      BY DEF ScreenInv, PlayerInv, Typed
<1>2. p.queue \in Seq([mode : Modes, age : Ages]) /\ Len(p.queue) <= 1
  <2>1. p.queue \in Queues
        BY <1>1 DEF Player
  <2> QED BY <2>1, QueueOfOne DEF Frames
<1>3. /\ p.state \in {"idle", "opening", "seeking", "playing", "error"}
      /\ p.file \in Files \cup {"none"}
      /\ p.path \in Paths /\ p.told \in Paths \cup {"none"}
      /\ p.chain = NoChain \/ p.chain \in [kind : Kinds, age : Ages]
      /\ p.picture = NoPicture \/ p.picture \in [mode : Modes, age : Ages]
      /\ p.overlay \in [Overlays -> Ages \cup {"none"}]
      /\ p.shot \in {"none", "pending", "taken"}
      BY <1>1 DEF Player, Chains, Pictures, Frames
<1>4. {p.shown, p.present, p.cue, p.drawn, p.known, p.soft, p.raced} \subseteq BOOLEAN
      BY <1>1 DEF Player
<1>5. p.worker \in Workers
      BY <1>1 DEF Player
<1>6. TypeOK
      BY <1>1, <1>2, <1>3, <1>4, <1>5 DEF TypeOK, Workers, ScreenInv, Beside
<1>7. ChainOfPath /\ TransferDecides
      BY <1>1 DEF ChainOfPath, ChainFits, TransferDecides, PictureFits, GoesWith
<1>8. PathBeforePicture
      BY <1>1 DEF PathBeforePicture, InOrder
<1> QED BY <1>6, <1>7, <1>8 DEF RightPath

LEMMA ScreenHonestFollows ==
    ASSUME ScreenInv
    PROVE  ScreenHonest
<1>1. Lives(p) /\ CueLives(p) /\ ErrorIsLast(p)
      BY DEF ScreenInv, PlayerInv
<1> QED BY <1>1 DEF ScreenHonest, OnLiveDevice, CueShown, ErrorIsVisible, Lives, CueLives, ErrorIsLast

-----------------------------------------------------------------------------
(* The theorems.                                                            *)

\* The inductive invariant holds of every behaviour.
THEOREM ScreenInvariant == Spec => []ScreenInv
<1>1. ScreenInv /\ [Next]_vars => ScreenInv'
      BY StepScreen
<1> QED BY InitScreen, <1>1, PTL DEF Spec

\* Every picture goes its own way: the transfer function of the stream decides, the path is
\* announced before it, and the chain is of the kind that goes with the path
\* (presenter.rs:177-218, hdr.rs:311, session.rs:1137).
THEOREM PicturesGoTheirWay == Spec => []RightPath
BY ScreenInvariant, RightPathFollows, PTL

\* What the session believes to be on screen is there, of the device that lives, and
\* nothing covers an error (presenter.rs:229-239, overlay.rs:126, session.rs:2863-2882).
THEOREM ScreenIsHonest == Spec => []ScreenHonest
BY ScreenInvariant, ScreenHonestFollows, PTL

-----------------------------------------------------------------------------
(* HdrMetadata: the inductive invariant, in named parts.                    *)

HdrOp == [open : Nat, seek : Nat]
HdrWorker == [state : {"opening", "decoding"}, op : HdrOp, known : BOOLEAN, reported : BOOLEAN]
HdrEvent == [kind : {"path", "metadata"}, op : HdrOp, from : Nat]
HdrRecord == {NoMetadata} \cup [Fields -> {"real", "unknown"}]
HdrChain == [kind : HdrPaths, set : [of : Nat, metadata : HdrRecord]]

HdrTypes ==
    /\ files \in Seq([path : HdrPaths, data : SideData])
    /\ op \in HdrOp
    /\ workers \in Seq(HdrWorker)
    /\ events \in Seq(HdrEvent)
    /\ chain \in HdrChain

\* An operation tells which file it is of: the worker's is its own file's, an event's its
\* worker's, and what the chain carries is of a file that was opened.
HdrOrigins ==
    /\ op.open = Len(files) /\ Len(workers) = Len(files)
    /\ \A w \in 1 .. Len(workers) : workers[w].op.open = w
    /\ \A i \in 1 .. Len(events) :
           events[i].op.open = events[i].from /\ events[i].from \in 1 .. Len(files)
    /\ chain.set.of <= Len(files)

HdrInv == HdrTypes /\ HdrOrigins /\ NeverOnSdr /\ NeverMixed

-----------------------------------------------------------------------------
(* An element of a sequence is of the sequence's set.                       *)
LEMMA ElementOf ==
    ASSUME NEW S, NEW s \in Seq(S), NEW i \in 1 .. Len(s)
    PROVE  s[i] \in S
OBVIOUS

(* What build_dxgi_hdr10_metadata makes is nothing, or a whole record.      *)
LEMMA BuildWhole ==
    ASSUME NEW data \in SideData
    PROVE  /\ Build(data) \in HdrRecord
           /\ Build(data) # NoMetadata =>
                 /\ Build(data).red = Build(data).green
                 /\ \E f \in Fields : Build(data)[f] = "real"
<1> DEFINE fields == [red |-> Field(data.primaries = "valid"),
                      green |-> Field(data.primaries = "valid"),
                      luminance |-> Field(data.luminance = "valid"),
                      light |-> Field(data.light = "valid")]
<1>1. fields \in [Fields -> {"real", "unknown"}]
      BY DEF Field, Fields
<1>2. DOMAIN fields = Fields /\ fields.red = fields.green
      BY DEF Fields
<1>3. Build(data) = IF \E f \in DOMAIN fields : fields[f] = "real" THEN fields ELSE NoMetadata
      BY DEF Build
<1> HIDE DEF fields
<1>4. CASE \E f \in Fields : fields[f] = "real"
      BY <1>1, <1>2, <1>3, <1>4 DEF HdrRecord
<1>5. CASE ~ \E f \in Fields : fields[f] = "real"
      BY <1>2, <1>3, <1>5 DEF HdrRecord
<1> QED
    BY <1>4, <1>5

(* At the start there is nothing, and the chain is an empty one for SDR.    *)
LEMMA InitHdr == HdrInit => HdrInv
<1> SUFFICES ASSUME HdrInit PROVE HdrInv
    OBVIOUS
<1> USE DEF HdrInit
<1>1. Unset \in [of : Nat, metadata : HdrRecord]
      BY DEF Unset, HdrRecord
<1>2. chain \in HdrChain
      BY <1>1 DEF HdrChain, HdrPaths
<1>3. HdrTypes
      BY <1>2 DEF HdrTypes, HdrOp
<1>4. HdrOrigins /\ NeverOnSdr /\ NeverMixed
      BY DEF HdrOrigins, NeverOnSdr, NeverMixed, Unset
<1> QED
    BY <1>3, <1>4 DEF HdrInv

(* A worker's event joins the others.                                       *)
LEMMA PostKeeps ==
    ASSUME HdrInv, NEW w \in 1 .. Len(workers), NEW kind \in {"path", "metadata"}, Post(w, kind)
    PROVE  /\ events' \in Seq(HdrEvent)
           /\ \A i \in 1 .. Len(events') :
                  events'[i].op.open = events'[i].from /\ events'[i].from \in 1 .. Len(files)
<1> DEFINE new == [kind |-> kind, op |-> workers[w].op, from |-> w]
<1>1. workers[w] \in HdrWorker /\ workers[w].op.open = w /\ w \in 1 .. Len(files)
      BY DEF HdrInv, HdrTypes, HdrOrigins
<1>2. new \in HdrEvent /\ new.op.open = new.from /\ new.from \in 1 .. Len(files)
      BY <1>1 DEF HdrEvent, HdrWorker
<1>3. events' = Append(events, new) /\ events \in Seq(HdrEvent)
      BY DEF Post, HdrInv, HdrTypes
<1>4. \A i \in 1 .. Len(events) :
          events[i].op.open = events[i].from /\ events[i].from \in 1 .. Len(files)
      BY DEF HdrInv, HdrOrigins
<1> HIDE DEF new
<1> QED
    BY <1>2, <1>3, <1>4

(* A worker's own state changes, its operation and its file do not.         *)
LEMMA WorkerKeeps ==
    ASSUME HdrInv, NEW w \in 1 .. Len(workers), NEW new \in HdrWorker, new.op.open = w,
           workers' = [workers EXCEPT ![w] = new]
    PROVE  /\ workers' \in Seq(HdrWorker) /\ Len(workers') = Len(workers)
           /\ \A v \in 1 .. Len(workers') : workers'[v].op.open = v
BY DEF HdrInv, HdrTypes, HdrOrigins

(* What an event makes of the chain: it stays whole, fit for its kind, and  *)
(* carries what it carried, nothing, or the current file's.                 *)
LEMMA DrainChain ==
    ASSUME HdrInv, Drain
    PROVE  /\ chain' \in HdrChain /\ NeverOnSdr' /\ NeverMixed'
           /\ chain'.set = chain.set \/ chain'.set = Unset \/ chain'.set.of = Len(files)
<1> DEFINE event == Head(events)
<1>1. event \in HdrEvent /\ event.op.open = event.from /\ event.from \in 1 .. Len(files)
      BY DEF Drain, HdrInv, HdrTypes, HdrOrigins
<1>2. chain \in HdrChain /\ NeverOnSdr /\ NeverMixed /\ op.open = Len(files)
      BY DEF HdrInv, HdrTypes, HdrOrigins
<1>3. files[event.from] \in [path : HdrPaths, data : SideData]
      <2>1. files \in Seq([path : HdrPaths, data : SideData])
            BY DEF HdrInv, HdrTypes
      <2>2. event.from \in 1 .. Len(files)
            BY <1>1
      <2> HIDE DEF event
      <2> QED
          BY ONLY <2>1, <2>2, ElementOf
<1>4. Unset \in [of : Nat, metadata : HdrRecord] /\ Unset.metadata = NoMetadata
      BY DEF Unset, HdrRecord
<1>5. CASE SelectPath(event)
      <2>1. CASE chain.kind = files[event.from].path
            BY <1>2, <1>5, <2>1 DEF SelectPath, NeverOnSdr, NeverMixed
      <2>2. CASE chain.kind # files[event.from].path
            <3>1. chain' = [kind |-> files[event.from].path, set |-> Unset]
                  BY <1>5, <2>2 DEF SelectPath
            <3> QED
                BY <1>3, <1>4, <3>1 DEF HdrChain, NeverOnSdr, NeverMixed
      <2> QED
          BY <2>1, <2>2
<1>6. CASE KnowMetadata(event)
      <2> DEFINE built == Build(files[event.from].data)
      <2>1. CASE chain.kind = "sdr" \/ built = NoMetadata
            <3>1. chain' = chain
                  BY <1>6, <2>1 DEF KnowMetadata, Apply
            <3> QED
                BY <1>2, <3>1 DEF NeverOnSdr, NeverMixed
      <2>2. CASE chain.kind # "sdr" /\ built # NoMetadata
            <3>1. chain' = [chain EXCEPT !.set = [of |-> event.from, metadata |-> built]]
                  BY <1>6, <2>2 DEF KnowMetadata, Apply
            <3>2. built \in HdrRecord /\ built.red = built.green
                  /\ \E f \in Fields : built[f] = "real"
                  BY <1>3, <2>2, BuildWhole
            <3>3. event.from = Len(files) /\ event.from \in Nat
                  BY <1>1, <1>2, <1>6 DEF KnowMetadata, IsCurrent
            <3> HIDE DEF event, built
            <3>4. chain'.set = [of |-> event.from, metadata |-> built] /\ chain'.kind = chain.kind
                  BY <1>2, <3>1 DEF HdrChain
            <3>5. chain' \in HdrChain
                  BY <1>2, <3>1, <3>2, <3>3 DEF HdrChain
            <3>6. NeverOnSdr' /\ NeverMixed'
                  BY <2>2, <3>2, <3>4 DEF NeverOnSdr, NeverMixed
            <3> QED
                BY <3>3, <3>4, <3>5, <3>6
      <2> QED
          BY <2>1, <2>2
<1>7. CASE DropStale(event)
      BY <1>2, <1>7 DEF DropStale, NeverOnSdr, NeverMixed
<1> QED
    BY <1>5, <1>6, <1>7 DEF Drain

-----------------------------------------------------------------------------
(* Every step keeps the invariant.                                          *)
LEMMA StepHdr == HdrInv /\ [HdrNext]_hdrVars => HdrInv'
<1> SUFFICES ASSUME HdrInv, [HdrNext]_hdrVars PROVE HdrInv'
    OBVIOUS
<1> USE DEF HdrInv
<1>1. CASE HdrOpen
      <2>1. PICK file \in [path : HdrPaths, data : SideData] : files' = Append(files, file)
            BY <1>1 DEF HdrOpen
      <2>2. files' \in Seq([path : HdrPaths, data : SideData]) /\ Len(files') = Len(files) + 1
            BY <2>1 DEF HdrTypes
      <2>3. op' \in HdrOp /\ op'.open = Len(files')
            BY <1>1, <2>2 DEF HdrOpen, HdrTypes, HdrOrigins, HdrOp
      <2> DEFINE new == [state |-> "opening", op |-> op', known |-> FALSE, reported |-> FALSE]
      <2>4. new \in HdrWorker /\ new.op.open = Len(files')
            BY <2>3 DEF HdrWorker
      <2>5. workers' = Append(workers, new) /\ workers \in Seq(HdrWorker)
            BY <1>1 DEF HdrOpen, HdrTypes
      <2>6. Len(workers) = Len(files) /\ \A w \in 1 .. Len(workers) : workers[w].op.open = w
            BY DEF HdrOrigins
      <2> HIDE DEF new
      <2>7. workers' \in Seq(HdrWorker) /\ Len(workers') = Len(files')
            /\ \A w \in 1 .. Len(workers') : workers'[w].op.open = w
            BY <2>2, <2>4, <2>5, <2>6
      <2>8. UNCHANGED <<events, chain>>
            BY <1>1 DEF HdrOpen
      <2>9. chain.set.of \in Nat /\ Len(files) \in Nat
            BY DEF HdrTypes, HdrChain
      <2>10. HdrTypes'
            BY <2>2, <2>3, <2>7, <2>8 DEF HdrTypes
      <2>11. \A i \in 1 .. Len(events') :
                 events'[i].op.open = events'[i].from /\ events'[i].from \in 1 .. Len(files')
            BY <2>2, <2>8, <2>9 DEF HdrOrigins
      <2>12. HdrOrigins'
            BY <2>2, <2>3, <2>7, <2>8, <2>9, <2>11 DEF HdrOrigins
      <2> QED
          BY <2>8, <2>10, <2>12 DEF NeverOnSdr, NeverMixed
<1>2. CASE HdrSeek
      <2>1. op' \in HdrOp /\ op'.open = op.open
            <3>1. op' = [op EXCEPT !.seek = @ + 1] /\ op \in [open : Nat, seek : Nat]
                  BY <1>2 DEF HdrSeek, HdrTypes, HdrOp
            <3>2. op' \in [open : Nat, seek : Nat] /\ op'.open = op.open
                  BY <3>1
            <3> QED
                BY <3>2 DEF HdrOp
      <2> QED
          BY <1>2, <2>1 DEF HdrSeek, HdrTypes, HdrOrigins, NeverOnSdr, NeverMixed
<1>3. CASE Drain
      <2>1. events' \in Seq(HdrEvent) /\ Len(events') = Len(events) - 1
            /\ \A i \in 1 .. Len(events') : events'[i] = events[i + 1]
            BY <1>3 DEF Drain, HdrTypes
      <2>2. chain' \in HdrChain /\ NeverOnSdr' /\ NeverMixed'
            BY <1>3, DrainChain
      <2>3. chain'.set.of <= Len(files)
            BY <1>3, DrainChain DEF HdrOrigins, HdrTypes, Unset
      <2>4. UNCHANGED <<files, op, workers>>
            BY <1>3 DEF Drain
      <2>5. \A i \in 1 .. Len(events') : i + 1 \in 1 .. Len(events)
            BY <2>1 DEF HdrTypes
      <2> QED
          BY <2>1, <2>2, <2>3, <2>4, <2>5 DEF HdrTypes, HdrOrigins
<1>4. CASE Rebuild
      <2>1. chain' = [chain EXCEPT !.set = Unset] /\ chain \in HdrChain
            BY <1>4 DEF Rebuild, HdrTypes
      <2>2. Unset \in [of : Nat, metadata : HdrRecord] /\ Unset.metadata = NoMetadata
            /\ Unset.of = 0
            BY DEF Unset, HdrRecord
      <2>3. chain' \in HdrChain /\ chain'.set = Unset
            BY <2>1, <2>2 DEF HdrChain
      <2> QED
          BY <1>4, <2>2, <2>3 DEF Rebuild, HdrTypes, HdrOrigins, NeverOnSdr, NeverMixed
<1>5. ASSUME NEW w \in 1 .. Len(workers),
             WorkerOpens(w) \/ WorkerInspects(w) \/ WorkerReports(w) \/ WorkerSeeks(w)
      PROVE  HdrInv'
      <2>1. UNCHANGED <<files, op, chain>>
            BY <1>5 DEF WorkerOpens, WorkerInspects, WorkerReports, WorkerSeeks
      <2>2. workers[w] \in HdrWorker /\ workers[w].op.open = w /\ workers \in Seq(HdrWorker)
            /\ Len(workers) = Len(files) /\ op \in HdrOp /\ op.open = Len(files)
            BY DEF HdrTypes, HdrOrigins
      <2>3. /\ events' \in Seq(HdrEvent)
            /\ \A i \in 1 .. Len(events') :
                   events'[i].op.open = events'[i].from /\ events'[i].from \in 1 .. Len(files)
            <3>1. CASE UNCHANGED events
                  BY <3>1 DEF HdrTypes, HdrOrigins
            <3>2. CASE Post(w, "path") \/ Post(w, "metadata")
                  BY <3>2, PostKeeps
            <3> QED
                BY <1>5, <3>1, <3>2 DEF WorkerOpens, WorkerInspects, WorkerReports, WorkerSeeks
      <2>4. PICK new \in HdrWorker : new.op.open = w /\ workers' = [workers EXCEPT ![w] = new]
            <3>1. CASE WorkerOpens(w)
                  BY <2>2, <3>1 DEF WorkerOpens, HdrWorker
            <3>2. CASE WorkerInspects(w)
                  BY <2>2, <3>2 DEF WorkerInspects, HdrWorker
            <3>3. CASE WorkerReports(w)
                  BY <2>2, <3>3 DEF WorkerReports, HdrWorker
            <3>4. CASE WorkerSeeks(w)
                  BY <2>2, <3>4 DEF WorkerSeeks, HdrWorker, Current
            <3> QED
                BY <1>5, <3>1, <3>2, <3>3, <3>4
      <2>5. workers' \in Seq(HdrWorker) /\ Len(workers') = Len(workers)
            /\ \A v \in 1 .. Len(workers') : workers'[v].op.open = v
            BY <2>4, WorkerKeeps
      <2> QED
          BY <2>1, <2>2, <2>3, <2>5 DEF HdrTypes, HdrOrigins, NeverOnSdr, NeverMixed
<1>6. CASE UNCHANGED hdrVars
      BY <1>6 DEF hdrVars, HdrTypes, HdrOrigins, NeverOnSdr, NeverMixed
<1> QED
    BY <1>1, <1>2, <1>3, <1>4, <1>5, <1>6 DEF HdrNext

(* The invariant holds of every behaviour.                                  *)
LEMMA HdrAlways == HdrSpec => []HdrInv
BY InitHdr, StepHdr, PTL DEF HdrSpec

(* The SDR chain is never told of HDR, whatever metadata is still queued    *)
(* when the kind of the chain changes (dxgi.rs:1125).                       *)
THEOREM SdrStaysUntold == HdrSpec => []NeverOnSdr
<1>1. HdrInv => NeverOnSdr
      BY DEF HdrInv
<1> QED
    BY <1>1, HdrAlways, PTL

(* What is set is whole: primaries are all real or all zero (hdr.rs:686).   *)
LEMMA MetadataIsWhole == HdrSpec => []NeverMixed
<1>1. HdrInv => NeverMixed
      BY DEF HdrInv
<1> QED
    BY <1>1, HdrAlways, PTL

(* The model's bounds on opens and seeks.                                   *)
Bounds == Len(files) <= MaxOpens /\ op.seek <= MaxSeeks

LEMMA BoundsAlways == HdrSpec => []Bounds
<1>1. HdrInit => Bounds
      BY HdrConstants DEF HdrInit, Bounds
<1>2. HdrInv /\ Bounds /\ [HdrNext]_hdrVars => Bounds'
      <2> SUFFICES ASSUME HdrInv, Bounds, [HdrNext]_hdrVars PROVE Bounds'
          OBVIOUS
      <2> USE HdrConstants DEF Bounds
      <2>1. op \in HdrOp /\ Len(files) \in Nat
            BY DEF HdrInv, HdrTypes
      <2>2. CASE HdrOpen
            <3>1. Len(files') = Len(files) + 1 /\ Len(files) < MaxOpens
                  BY <2>2 DEF HdrOpen, Current, HdrInv, HdrTypes
            <3>2. op'.seek = op.seek
                  BY <2>1, <2>2 DEF HdrOpen, HdrOp
            <3> QED
                BY <2>1, <3>1, <3>2
      <2>3. CASE HdrSeek
            BY <2>1, <2>3 DEF HdrSeek, HdrOp
      <2>4. CASE UNCHANGED <<files, op>>
            BY <2>4
      <2> QED
          BY <2>2, <2>3, <2>4
             DEF HdrNext, hdrVars, Drain, Rebuild, WorkerOpens, WorkerInspects, WorkerReports, WorkerSeeks
<1> QED
    BY <1>1, <1>2, HdrAlways, PTL DEF HdrSpec

(* Whatever a chain is told is true of its kind and whole, and every        *)
(* variable keeps its type (dxgi.rs:1125, hdr.rs:686).                      *)
THEOREM MetadataAlwaysFits == HdrSpec => []MetadataFits
<1>1. ASSUME HdrInv, Bounds PROVE MetadataFits
      <2>1. Len(files) \in Nat /\ op.open \in Nat /\ op.seek \in Nat
            BY <1>1 DEF HdrInv, HdrTypes, HdrOp
      <2>2. op \in [open : 0 .. MaxOpens, seek : 0 .. MaxSeeks]
            BY <1>1, <2>1, HdrConstants DEF HdrInv, HdrTypes, HdrOp, HdrOrigins, Bounds
      <2>3. chain.kind \in HdrPaths /\ chain.set.of \in 0 .. MaxOpens
            /\ chain.set.metadata \in HdrRecord
            BY <1>1, <2>1, HdrConstants DEF HdrInv, HdrTypes, HdrChain, HdrOrigins, Bounds
      <2> QED
          BY <1>1, <2>2, <2>3
             DEF MetadataFits, HdrTypeOK, HdrInv, HdrTypes, HdrOrigins, HdrRecord, Bounds
<1> QED
    BY <1>1, HdrAlways, BoundsAlways, PTL

(* A file's metadata is never replaced by that of one opened before: the    *)
(* report of a replaced worker names an operation of its own file, which is *)
(* no longer the current one (session.rs:1137).                             *)
THEOREM NoEarlierFile == HdrSpec => NeverAnEarlierFile
<1>1. HdrInv /\ [HdrNext]_hdrVars => [chain'.set.of # 0 => chain'.set.of >= chain.set.of]_hdrVars
      <2> SUFFICES ASSUME HdrInv, HdrNext PROVE chain'.set.of # 0 => chain'.set.of >= chain.set.of
          BY DEF hdrVars
      <2>1. chain.set.of \in Nat /\ chain.set.of <= Len(files) /\ Len(files) \in Nat
            BY DEF HdrInv, HdrTypes, HdrOrigins, HdrChain
      <2>2. CASE Drain
            BY <2>1, <2>2, DrainChain DEF Unset
      <2>3. CASE Rebuild
            <3>1. chain'.set = Unset
                  BY <2>3 DEF Rebuild, HdrInv, HdrTypes, HdrChain
            <3> QED
                BY <3>1 DEF Unset
      <2>4. CASE UNCHANGED chain
            BY <2>1, <2>4
      <2> QED
          BY <2>2, <2>3, <2>4
             DEF HdrNext, HdrOpen, HdrSeek, WorkerOpens, WorkerInspects, WorkerReports, WorkerSeeks
<1> QED
    BY <1>1, HdrAlways, PTL DEF HdrSpec, NeverAnEarlierFile
=============================================================================
