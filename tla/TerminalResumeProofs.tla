------------------------ MODULE TerminalResumeProofs ------------------------
(***************************************************************************)
(* Proofs about TerminalResume for any number of windows, connections and  *)
(* bytes, any size of the history and any cap on detached shells.          *)
(***************************************************************************)
EXTENDS TerminalResume, SequenceTheorems, FiniteSetTheorems, WellFoundedInduction, TLAPS

Serving == {"auth", "on"}
Known == {"live", "ended"}
Ends == {"closed", "error"}

\* A handler at work has a shell, one that is attached is at work on that shell,
\* and there is nothing to a shell that does not exist.
Attached ==
    /\ \A s \in Sockets : sock[s].at \in Serving => sock[s].sh \in Sockets
    /\ \A h \in Sockets : shell[h].att # None =>
          sock[shell[h].att].at = "on" /\ sock[shell[h].att].sh = h
    /\ \A h \in Sockets : shell[h].st \in {"none", "new", "ended"} => shell[h] = Bare(shell[h].st)

\* A shell has the name of its first socket.  Until it has been opened no other
\* socket has it, and no window can ask for it.
FirstSocket ==
    \A s \in Sockets :
        /\ sock[s].at \in {"unused", "dialing"} => shell[s].st = "none"
        /\ sock[s].at = "auth" /\ sock[s].sh = s => shell[s].st \in {"new", "ended"}
        /\ shell[s].st = "connecting" => shell[s].att = s /\ shell[s].end = 0
        /\ sock[s].at \in Serving /\ sock[s].sh # s => shell[sock[s].sh].st \in Known
        /\ sock[s].at = "auth" /\ sock[s].sh # s => sock[s].sh = sock[s].resume
        /\ sock[s].resume # None => shell[sock[s].resume].st \in Known

\* The history of a shell begins no later than it ends.
HistoryKept == \A h \in Sockets : shell[h].start <= shell[h].end

\* A window has no more of a shell than the shell has printed.
WindowKnows ==
    \A w \in Windows : win[w].id # None =>
        /\ shell[win[w].id].st \in Known
        /\ shell[win[w].id].st = "live" => win[w].got <= shell[win[w].id].end

\* A socket is one window's, and asks for what that window has.
OneReader ==
    /\ \A w \in Windows : win[w].cur # None => sock[win[w].cur].at # "unused"
    /\ \A v, w \in Windows : win[v].cur # None /\ win[v].cur = win[w].cur => v = w
    /\ \A w \in Windows : win[w].cur # None /\ sock[win[w].cur].at \in {"dialing", "auth"} =>
          /\ sock[win[w].cur].resume = win[w].id
          /\ win[w].id # None => sock[win[w].cur].offset = win[w].got

\* What is on the way to a window: at most one greeting, first; output of the shell
\* of the socket, printed already; a notice only when the socket is over.
QueueShape ==
    \A s \in Sockets :
        /\ sock[s].at \in {"unused", "dialing", "auth"} \/ shell[s].st = "connecting"
              => down[s] = <<>>
        /\ \A i \in 1 .. Len(down[s]) :
              /\ down[s][i].t = "session" => i = 1
              /\ down[s][i].t \in Ends => i = Len(down[s]) /\ sock[s].at = "over"
              /\ down[s][i].t \notin Ends =>
                    /\ down[s][i].sh = sock[s].sh /\ sock[s].sh # None
                    /\ shell[sock[s].sh].st \in Known
                    /\ shell[sock[s].sh].st = "live" => down[s][i].to <= shell[sock[s].sh].end

\* A window that is sent output has been greeted, or will be before it.
Greeted ==
    \A w \in Windows : win[w].cur # None =>
        LET s == win[w].cur
        IN  /\ Len(down[s]) > 0 /\ down[s][1].t = "output" => win[w].id = sock[s].sh
            /\ sock[s].at = "on" /\ shell[sock[s].sh].st = "live"
                  => win[w].id = sock[s].sh \/ (Len(down[s]) > 0 /\ down[s][1].t = "session")

\* The inductive invariant.
IInv ==
    /\ TypeOK /\ Attached /\ FirstSocket /\ HistoryKept /\ WindowKnows /\ OneReader
    /\ QueueShape /\ Greeted /\ NoOrphan /\ PausedHasReader /\ CapRespected /\ ExactOutput

-----------------------------------------------------------------------------
\* The shapes of a step, as far as shells and handlers go.

Others(h) == \A g \in Sockets \ {h} : shell'[g] = shell[g]
Stays(s) == /\ sock'[s].at = sock[s].at /\ sock'[s].sh = sock[s].sh
            /\ sock'[s].resume = sock[s].resume /\ sock'[s].offset = sock[s].offset
Goes(s) == /\ sock'[s].at = "over" /\ sock'[s].sh = sock[s].sh
           /\ sock'[s].resume = sock[s].resume

\* A shell without its socket: it is over, or there is room to keep it.
Rested(h, rec) ==
    \/ rec = EndedShell
    \/ /\ shell[h].st = "live" /\ rec.st = "live" /\ rec.att = None /\ rec.det /\ ~rec.paused
       /\ rec.end >= shell[h].end /\ (shell[h].start <= shell[h].end => rec.start <= rec.end)
       /\ Cardinality({g \in Sockets \ {h} : shell[g].det}) < MaxDetached

\* Nothing happens to a shell or to a handler that has one.
Aside ==
    /\ shell' = shell
    /\ \A s \in Sockets :
          \/ Stays(s)
          \/ /\ sock[s].at \in {"unused", "dialing"} /\ sock'[s].at \in {"dialing", "over"}
             /\ sock'[s].at = "over" => Goes(s)
             /\ sock'[s].at = "dialing" =>
                   /\ sock[s].at = "unused"
                   /\ sock'[s].resume # None =>
                         \E w \in Windows : win[w].id = sock'[s].resume

\* The shell h is left, by handlers that had it, or had none.
Parting(h) ==
    /\ Rested(h, shell'[h]) /\ Others(h) /\ sock[h].at \notin {"unused", "dialing"}
    /\ \A s \in Sockets : \/ Stays(s)
                          \/ /\ Goes(s) /\ sock[s].at # "unused"
                             /\ sock[s].at \in Serving => sock[s].sh = h

\* The handler s takes h over.
Taking(s, h) ==
    /\ sock[s].at = "dialing" /\ sock[s].resume = h /\ h \in Sockets /\ Alive(h)
    /\ shell'[h] = [shell[h] EXCEPT !.att = None, !.det = FALSE] /\ Others(h)
    /\ sock'[s].at = "auth" /\ sock'[s].sh = h
    /\ sock'[s].resume = sock[s].resume /\ sock'[s].offset = sock[s].offset
    /\ \A r \in Sockets \ {s} : Stays(r) \/ (Goes(r) /\ sock[r].at = "on" /\ sock[r].sh = h)

Creating(s) ==
    /\ sock[s].at = "dialing" /\ shell'[s] = NewShell /\ Others(s)
    /\ sock'[s].at = "auth" /\ sock'[s].sh = s
    /\ sock'[s].resume = sock[s].resume /\ sock'[s].offset = sock[s].offset
    /\ \A r \in Sockets \ {s} : Stays(r)

\* The handler s is attached to the shell h it has: a new one, or one it took over.
Attaching(s, h) ==
    /\ sock[s].at = "auth" /\ sock[s].sh = h /\ shell[h].st # "ended" /\ Others(h)
    /\ shell'[h] = IF h = s THEN [shell[h] EXCEPT !.att = s, !.st = "connecting"]
                            ELSE [shell[h] EXCEPT !.att = s, !.paused = FALSE]
    /\ sock'[s].at = "on" /\ sock'[s].sh = h
    /\ sock'[s].resume = sock[s].resume /\ sock'[s].offset = sock[s].offset
    /\ \A r \in Sockets \ {s} : Stays(r)

\* The shell h opens, prints or is let go on.
Running(h) ==
    /\ Others(h) /\ \A s \in Sockets : Stays(s)
    /\ shell'[h].att = shell[h].att /\ shell'[h].det = shell[h].det
    /\ shell'[h].paused => shell[h].paused \/ shell[h].att # None
    /\ shell'[h].st \in {"connecting", "live"} /\ Alive(h)
    /\ shell'[h].end >= shell[h].end
    /\ shell[h].start <= shell[h].end => shell'[h].start <= shell'[h].end
    /\ \/ shell'[h].st = shell[h].st /\ (shell[h].st # "live" => shell'[h].end = shell[h].end)
       \/ shell[h].st = "connecting" /\ shell'[h].st = "live" /\ shell'[h].end = shell[h].end

Stopping ==
    /\ \A h \in Sockets : \/ shell[h].st = "none" /\ shell'[h] = NoShell
                          \/ shell[h].st # "none" /\ shell'[h] = EndedShell
    /\ \A s \in Sockets : (Stays(s) /\ sock[s].at = "unused") \/ (Goes(s) /\ sock[s].at # "unused")

Shape ==
    \/ Aside \/ Stopping
    \/ \E h \in Sockets : Parting(h) \/ Running(h)
    \/ \E s \in Sockets : Creating(s) \/ \E h \in Sockets : Taking(s, h) \/ Attaching(s, h)

-----------------------------------------------------------------------------
LEMMA Numbers ==
    /\ None \notin Sockets /\ IsFiniteSet(Sockets)
    /\ MaxSockets \in Nat /\ MaxOutput \in Nat /\ History \in Nat /\ MaxDetached \in Nat
<1>1. MaxSockets \in Nat /\ MaxOutput \in Nat /\ History \in Nat /\ MaxDetached \in Nat
  BY ConstantsAssumption
<1> QED BY <1>1, ConstantsAssumption, FS_Interval DEF Sockets

LEMMA BareShell ==
    \A st : /\ Bare(st).st = st /\ Bare(st).att = None /\ Bare(st).end = 0 /\ Bare(st).start = 0
           /\ Bare(st).paused = FALSE /\ Bare(st).det = FALSE
  BY DEF Bare

LEMMA ShellFields ==
    ASSUME TypeOK, NEW h \in Sockets
    PROVE  /\ shell[h] \in Shell /\ shell[h].att \in Sockets \cup {None}
           /\ shell[h].start \in 0 .. MaxOutput /\ shell[h].end \in 0 .. MaxOutput
           /\ shell[h].paused \in BOOLEAN /\ shell[h].det \in BOOLEAN
           /\ EndedShell \in Shell /\ NewShell \in Shell /\ NoShell \in Shell
           /\ EndedShell.st = "ended" /\ EndedShell.att = None /\ EndedShell.end = 0
           /\ ~EndedShell.paused /\ ~EndedShell.det
           /\ NewShell.st = "new" /\ NewShell.att = None /\ ~NewShell.paused /\ ~NewShell.det
           /\ NoShell.st = "none" /\ NoShell.att = None /\ ~NoShell.paused /\ ~NoShell.det
  BY Numbers DEF TypeOK, Shell, ShellId, Offset, EndedShell, NewShell, NoShell, Bare

LEMMA SockFields ==
    ASSUME TypeOK, NEW s \in Sockets
    PROVE  /\ sock[s] \in Sock /\ sock[s].sh \in Sockets \cup {None}
           /\ sock[s].resume \in Sockets \cup {None} /\ sock[s].offset \in 0 .. MaxOutput
  BY DEF TypeOK, Sock, ShellId, Offset

LEMMA ReleasedSock ==
    ASSUME TypeOK, NEW s \in Sockets, sock' = Released(s)
    PROVE  /\ sock' \in [Sockets -> Sock] /\ Goes(s) /\ \A r \in Sockets \ {s} : Stays(r)
  BY ZenonT(60) DEF TypeOK, Sock, Released, Goes, Stays

LEMMA ByeStays ==
    ASSUME TypeOK, NEW r \in Sockets, sock' = [sock EXCEPT ![r].bye = TRUE]
    PROVE  sock' \in [Sockets -> Sock] /\ \A s \in Sockets : Stays(s)
<1>1. sock \in [Sockets -> Sock]
  BY DEF TypeOK
<1> DEFINE rec == [sock[r] EXCEPT !.bye = TRUE]
<1>2. /\ rec \in Sock /\ rec.at = sock[r].at /\ rec.sh = sock[r].sh
      /\ rec.resume = sock[r].resume /\ rec.offset = sock[r].offset
  BY <1>1, ZenonT(60) DEF Sock
<1>3. sock' = [sock EXCEPT ![r] = rec]
  OBVIOUS
<1> HIDE DEF rec
<1>4. sock' \in [Sockets -> Sock] /\ sock'[r] = rec /\ \A s \in Sockets \ {r} : sock'[s] = sock[s]
  BY <1>1, <1>2, <1>3
<1> QED BY <1>2, <1>4 DEF Stays

LEMMA DetachedRests ==
    ASSUME TypeOK, NEW h \in Sockets, NEW rec \in Shell,
           rec.st = shell[h].st, rec.end >= shell[h].end,
           shell[h].start <= shell[h].end => rec.start <= rec.end
    PROVE  Rested(h, Detached(h, rec)) /\ Detached(h, rec) \in Shell
<1>1. CASE rec.st # "live" \/ ~RoomLeft(h, rec)
  BY <1>1, ShellFields DEF Detached, Rested
<1>2. CASE rec.st = "live" /\ RoomLeft(h, rec)
  <2>1. Detached(h, rec) = [rec EXCEPT !.att = None, !.det = TRUE, !.paused = FALSE]
    BY <1>2 DEF Detached
  <2> DEFINE D == {g \in Sockets : IF g = h THEN rec.det ELSE shell[g].det}
             E == {g \in Sockets \ {h} : shell[g].det}
  <2>2. IsFiniteSet(D) /\ E \subseteq D
    BY Numbers, FS_Subset
  <2>3. Cardinality(E) <= Cardinality(D) /\ Cardinality(E) \in Nat /\ Cardinality(D) \in Nat
    BY <2>2, FS_Subset, FS_CardinalityType
  <2>4. Cardinality(D) < MaxDetached
    BY <1>2 DEF RoomLeft
  <2>5. Cardinality(E) < MaxDetached
    BY <2>3, <2>4, Numbers
  <2> QED BY <1>2, <2>1, <2>5 DEF Rested, Shell, ShellId
<1> QED BY <1>1, <1>2

-----------------------------------------------------------------------------
\* Every step has one of the shapes, and keeps the types of shells and handlers.
Typed == shell' \in [Sockets -> Shell] /\ sock' \in [Sockets -> Sock]

\* The handler s leaves the shell it has.
LEMMA Leaving ==
    ASSUME TypeOK, Attached, FirstSocket, NEW s \in Sockets, sock[s].at \in Serving,
           sock' = Released(s), NEW rec \in Shell, shell' = [shell EXCEPT ![sock[s].sh] = rec],
           Rested(sock[s].sh, rec)
    PROVE  Typed /\ Parting(sock[s].sh) /\ sock[s].sh \in Sockets
<1>1. sock[s].sh \in Sockets
  BY DEF Attached
<1>2. sock[sock[s].sh].at \notin {"unused", "dialing"}
  BY <1>1 DEF FirstSocket, Serving, Known
<1>3. shell'[sock[s].sh] = rec /\ Others(sock[s].sh)
  BY <1>1 DEF TypeOK, Others
<1> QED BY <1>1, <1>2, <1>3, ReleasedSock DEF Typed, Parting, TypeOK, Serving

LEMMA LeavingSteps ==
    ASSUME TypeOK, Attached, FirstSocket, NEW s \in Sockets,
           \/ AttachLate(s) \/ Deny(s) \/ Drop(s) \/ ByeArrives(s)
           \/ Close(s) /\ sock[s].at \in Serving
    PROVE  Typed /\ sock[s].sh \in Sockets /\ Parting(sock[s].sh)
<1> DEFINE h == sock[s].sh
<1>1. sock[s].at \in Serving /\ sock' = Released(s)
  BY DEF AttachLate, Deny, Drop, ByeArrives, Close, Serving
<1>2. h \in Sockets
  BY <1>1 DEF Attached
<1>3. EndedShell \in Shell /\ Rested(h, EndedShell)
  BY <1>2, ShellFields DEF Rested
<1>4. Detached(h, shell[h]) \in Shell /\ Rested(h, Detached(h, shell[h]))
  BY <1>2, ShellFields, DetachedRests
<1>5. shell' \in {[shell EXCEPT ![h] = EndedShell], [shell EXCEPT ![h] = Detached(h, shell[h])]}
  <2>1. CASE AttachLate(s)
    BY <1>2, <2>1 DEF AttachLate, Attached, TypeOK, EndedShell
  <2>2. CASE Deny(s) \/ ByeArrives(s)
    BY <2>2 DEF Deny, ByeArrives
  <2>3. CASE Drop(s) \/ (Close(s) /\ sock[s].at \in Serving)
    BY <2>3 DEF Drop, Close, Serving
  <2> QED BY <2>1, <2>2, <2>3
<1> HIDE DEF h
<1>6. Typed /\ Parting(h)
  BY <1>1, <1>2, <1>3, <1>4, <1>5, Leaving DEF h
<1> QED BY <1>2, <1>6 DEF h

\* A handler that has no shell.
LEMMA EarlySteps ==
    ASSUME TypeOK, Attached, FirstSocket, NEW s \in Sockets,
           Refuse(s) \/ (Create(s) /\ ~sock[s].open) \/ (Close(s) /\ sock[s].at \notin Serving)
    PROVE  Typed /\ Aside
<1>1. shell' = shell /\ sock' \in [Sockets -> Sock]
  <2>1. CASE Refuse(s)
    BY <2>1, ReleasedSock DEF Refuse
  <2>2. CASE Create(s) /\ ~sock[s].open
    <3>1. sock' = [sock EXCEPT ![s].at = "over"] /\ shell' = shell
      BY <2>2 DEF Create
    <3> QED BY <3>1, ZenonT(60) DEF TypeOK, Sock
  <2>3. CASE Close(s) /\ sock[s].at \notin Serving
    <3>1. sock' = [sock EXCEPT ![s].open = FALSE] /\ shell' = shell
      BY <2>3 DEF Close, Serving
    <3> QED BY <3>1, ZenonT(60) DEF TypeOK, Sock
  <2> QED BY <2>1, <2>2, <2>3
<1>2. \A r \in Sockets \ {s} : Stays(r)
  BY ReleasedSock DEF Refuse, Create, Close, TypeOK, Stays, Serving
<1>3. Stays(s) \/ (sock[s].at = "dialing" /\ Goes(s))
  <2>1. CASE Refuse(s)
    BY <2>1, ReleasedSock DEF Refuse
  <2>2. CASE Create(s) /\ ~sock[s].open
    <3>1. sock' = [sock EXCEPT ![s].at = "over"] /\ sock[s].at = "dialing"
      BY <2>2 DEF Create
    <3> QED BY <3>1 DEF TypeOK, Sock, Goes
  <2>3. CASE Close(s) /\ sock[s].at \notin Serving
    <3>1. sock' = [sock EXCEPT ![s].open = FALSE]
      BY <2>3 DEF Close, Serving
    <3> QED BY <3>1 DEF TypeOK, Sock, Stays
  <2> QED BY <2>1, <2>2, <2>3
<1> QED BY <1>1, <1>2, <1>3 DEF Typed, Aside, TypeOK, Goes

LEMMA CreateSteps ==
    ASSUME TypeOK, NEW s \in Sockets, Create(s), sock[s].open
    PROVE  Typed /\ Creating(s)
<1>1. shell' = [shell EXCEPT ![s] = NewShell]
      /\ sock' = [sock EXCEPT ![s] = [@ EXCEPT !.at = "auth", !.sh = s]] /\ sock[s].at = "dialing"
  BY DEF Create
<1> QED BY <1>1, ShellFields, ZenonT(60) DEF Typed, TypeOK, Sock, ShellId, Creating, Others, Stays

\* The socket the shell was taken from, if any, has been released.
LEMMA ClaimSteps ==
    ASSUME TypeOK, Attached, FirstSocket, NEW s \in Sockets, Claim(s)
    PROVE  /\ Typed /\ sock[s].resume \in Sockets
           /\ Taking(s, sock[s].resume) \/ Parting(sock[s].resume)
<1> DEFINE h == sock[s].resume
           old == shell[h].att
           free == [shell[h] EXCEPT !.att = None, !.det = FALSE]
           rest == IF old = None THEN sock ELSE Released(old)
<1>1. sock[s].at = "dialing" /\ h \in Sockets /\ Alive(h)
  BY SockFields DEF Claim, Claimable
<1>2. old \in Sockets => sock[old].at = "on" /\ sock[old].sh = h /\ old # s
  BY <1>1, Numbers DEF Attached
<1>3. old \in Sockets \cup {None}
  BY <1>1, ShellFields
<1>4. /\ rest \in [Sockets -> Sock] /\ rest[s] = sock[s]
      /\ \A r \in Sockets \ {old} : rest[r] = sock[r]
      /\ old # None => /\ rest[old].at = "over" /\ rest[old].sh = h
                       /\ rest[old].resume = sock[old].resume
  BY <1>2, <1>3, ZenonT(60) DEF TypeOK, Released, Sock
<1>5. /\ free \in Shell /\ free.st = shell[h].st
      /\ free.end = shell[h].end /\ free.start = shell[h].start
  BY <1>1, ShellFields DEF Shell, ShellId
<1>6. sock[h].at \notin {"unused", "dialing"}
  BY <1>1 DEF FirstSocket, Alive
<1>7. CASE sock[s].open
  <2>1. shell' = [shell EXCEPT ![h] = free]
        /\ sock' = [rest EXCEPT ![s] = [@ EXCEPT !.at = "auth", !.sh = h]]
    BY <1>7 DEF Claim
  <2> HIDE DEF rest, free
  <2>2. Typed
    <3>1. [rest[s] EXCEPT !.at = "auth", !.sh = h] \in Sock
      BY <1>1, <1>4, ZenonT(60) DEF Sock, ShellId
    <3> QED BY <1>1, <1>4, <1>5, <2>1, <3>1 DEF Typed, TypeOK
  <2>3. /\ sock'[s].at = "auth" /\ sock'[s].sh = h
        /\ sock'[s].resume = sock[s].resume /\ sock'[s].offset = sock[s].offset
    BY <1>1, <1>4, <2>1 DEF Sock
  <2>4. \A r \in Sockets \ {s} : Stays(r) \/ (Goes(r) /\ sock[r].at = "on" /\ sock[r].sh = h)
    <3>1. \A r \in Sockets \ {s} : sock'[r] = rest[r]
      BY <1>4, <2>1
    <3>2. ASSUME NEW r \in Sockets \ {s, old} PROVE Stays(r)
      BY <1>4, <3>1 DEF Stays
    <3>3. old \in Sockets => Goes(old)
      BY <1>2, <1>4, <3>1, Numbers DEF Goes
    <3> QED BY <1>2, <3>2, <3>3
  <2>5. shell'[h] = free /\ Others(h)
    BY <1>1, <2>1 DEF TypeOK, Others
  <2>6. Taking(s, h)
    BY <1>1, <2>3, <2>4, <2>5 DEF Taking, free
  <2> QED BY <1>1, <2>2, <2>6
<1>8. CASE ~sock[s].open
  <2>1. shell' = [shell EXCEPT ![h] = Detached(h, free)]
        /\ sock' = [rest EXCEPT ![s].at = "over"]
    BY <1>8 DEF Claim
  <2> HIDE DEF rest, free
  <2>2. Detached(h, free) \in Shell /\ Rested(h, Detached(h, free))
    BY <1>1, <1>5, ShellFields, DetachedRests
  <2>3. Typed
    BY <1>1, <1>4, <2>1, <2>2, ZenonT(60) DEF Typed, TypeOK, Sock
  <2>4. /\ Goes(s)
        /\ \A r \in Sockets \ {s} : Stays(r) \/ (Goes(r) /\ sock[r].at = "on" /\ sock[r].sh = h)
    <3>1. /\ \A r \in Sockets \ {s} : sock'[r] = rest[r]
          /\ sock'[s] = [rest[s] EXCEPT !.at = "over"]
      BY <1>4, <2>1
    <3>2. Goes(s)
      BY <1>4, <3>1 DEF Goes, Sock
    <3>3. ASSUME NEW r \in Sockets \ {s, old} PROVE Stays(r)
      BY <1>4, <3>1 DEF Stays
    <3>4. old \in Sockets => Goes(old)
      BY <1>2, <1>4, <3>1, Numbers DEF Goes
    <3> QED BY <1>2, <3>2, <3>3, <3>4
  <2>5. shell'[h] = Detached(h, free) /\ Others(h)
    BY <1>1, <2>1 DEF TypeOK, Others
  <2>6. Parting(h)
    BY <1>1, <1>6, <2>2, <2>4, <2>5 DEF Parting, Serving
  <2> QED BY <1>1, <2>3, <2>6
<1> QED BY <1>7, <1>8

LEMMA AttachSteps ==
    ASSUME TypeOK, Attached, NEW s \in Sockets, Attach(s)
    PROVE  Typed /\ Attaching(s, sock[s].sh) /\ sock[s].sh \in Sockets
<1> DEFINE h == sock[s].sh
<1>1. sock[s].at = "auth" /\ shell[h].st # "ended" /\ sock' = [sock EXCEPT ![s].at = "on"]
  BY DEF Attach
<1>2. h \in Sockets
  BY <1>1 DEF Attached, Serving
<1>3. shell' = [shell EXCEPT ![h] = IF h = s THEN [shell[h] EXCEPT !.att = s, !.st = "connecting"]
                                    ELSE [shell[h] EXCEPT !.att = s, !.paused = FALSE]]
  BY DEF Attach
<1>4. shell[h] \in Shell
  BY <1>2, ShellFields
<1>5. [shell[h] EXCEPT !.att = s, !.st = "connecting"] \in Shell
      /\ [shell[h] EXCEPT !.att = s, !.paused = FALSE] \in Shell
  BY <1>4 DEF Shell, ShellId
<1> QED BY <1>1, <1>2, <1>3, <1>5 DEF Typed, TypeOK, Sock, Attaching, Others, Stays

LEMMA RecordedShell ==
    ASSUME NEW rec \in Shell, rec.end < MaxOutput
    PROVE  /\ Recorded(rec) \in Shell /\ Recorded(rec).end = rec.end + 1
           /\ Recorded(rec).st = rec.st /\ Recorded(rec).att = rec.att
           /\ Recorded(rec).det = rec.det /\ Recorded(rec).paused = rec.paused
           /\ rec.start <= rec.end => Recorded(rec).start <= Recorded(rec).end
<1>1. rec.end \in 0 .. MaxOutput /\ rec.start \in 0 .. MaxOutput
  BY DEF Shell, Offset
<1> DEFINE start == IF rec.end + 1 - rec.start > History THEN rec.start + 1 ELSE rec.start
<1>2. rec.end + 1 \in 0 .. MaxOutput /\ start \in 0 .. MaxOutput
  BY <1>1, Numbers
<1>3. Recorded(rec) = [rec EXCEPT !.end = rec.end + 1, !.start = start]
  BY DEF Recorded
<1>4. rec.start <= rec.end => start <= rec.end + 1
  BY <1>1, Numbers
<1> HIDE DEF start
<1> QED BY <1>2, <1>3, <1>4 DEF Shell, Offset

LEMMA ShellSteps ==
    ASSUME TypeOK, Attached, FirstSocket, NEW h \in Sockets,
           ShellOpens(h) \/ Prints(h) \/ Drain(h) \/ ShellEnds(h) \/ DetachTimeout(h)
    PROVE  Typed /\ (Running(h) \/ Parting(h))
<1>0. shell[h] \in Shell /\ shell \in [Sockets -> Shell] /\ sock \in [Sockets -> Sock]
      /\ shell[h].end \in 0 .. MaxOutput
  BY ShellFields DEF TypeOK
<1>s. ASSUME sock' = sock PROVE sock' \in [Sockets -> Sock] /\ \A s \in Sockets : Stays(s)
  BY <1>0, <1>s DEF Stays
<1>p. ASSUME shell[h].att \in Sockets, sock' = Released(shell[h].att)
      PROVE  /\ sock' \in [Sockets -> Sock]
             /\ \A s \in Sockets : \/ Stays(s)
                                   \/ /\ Goes(s) /\ sock[s].at # "unused"
                                      /\ sock[s].at \in Serving => sock[s].sh = h
  BY <1>p, ReleasedSock, Numbers DEF Attached
<1>r. ASSUME NEW rec \in Shell, shell' = [shell EXCEPT ![h] = rec], Rested(h, rec),
             shell[h].st # "none",
             sock' = sock \/ (shell[h].att \in Sockets /\ sock' = Released(shell[h].att))
      PROVE  Typed /\ Parting(h)
  <2>1. sock[h].at \notin {"unused", "dialing"}
    BY <1>r DEF FirstSocket
  <2>2. shell'[h] = rec /\ Others(h) /\ shell' \in [Sockets -> Shell]
    BY <1>0, <1>r DEF Others
  <2> QED BY <1>s, <1>p, <1>r, <2>1, <2>2 DEF Typed, Parting
<1>e. EndedShell \in Shell /\ Rested(h, EndedShell)
  BY ShellFields DEF Rested
<1>1. CASE ShellOpens(h)
  <2>1. shell[h].st = "connecting" /\ shell' = [shell EXCEPT ![h].st = "live"] /\ sock' = sock
    BY <1>1 DEF ShellOpens
  <2>2. Typed
    BY <1>0, <1>s, <2>1 DEF Typed, Shell
  <2> QED BY <1>0, <1>s, <2>1, <2>2 DEF Running, Others, Shell, Alive
<1>2. CASE Prints(h)
  <2>0. shell[h].st = "live" /\ ~shell[h].paused /\ shell[h].end < MaxOutput
    BY <1>2 DEF Prints
  <2> DEFINE new == Recorded(shell[h])
  <2>1. /\ new \in Shell /\ new.end = shell[h].end + 1 /\ new.st = "live"
        /\ new.att = shell[h].att /\ new.det = shell[h].det /\ new.paused = shell[h].paused
        /\ shell[h].start <= shell[h].end => new.start <= new.end
    BY <1>0, <2>0, RecordedShell
  <2>2. CASE shell' = [shell EXCEPT ![h] = Detached(h, new)] /\ shell[h].att # None
             /\ sock' = Released(shell[h].att)
    <3>1. shell[h].att \in Sockets /\ Detached(h, new) \in Shell /\ Rested(h, Detached(h, new))
      BY <1>0, <2>0, <2>1, <2>2, ShellFields, DetachedRests
    <3> QED BY <1>r, <2>0, <2>2, <3>1
  <2>3. ASSUME NEW paused \in BOOLEAN, paused => shell[h].att # None, sock' = sock,
               shell' = [shell EXCEPT ![h] = [new EXCEPT !.paused = paused]]
        PROVE  Typed /\ Running(h)
    <3> HIDE DEF new
    <3>1. [new EXCEPT !.paused = paused] \in Shell
      BY <2>1, <2>3 DEF Shell
    <3>2. Typed
      BY <1>0, <1>s, <2>3, <3>1 DEF Typed
    <3> QED BY <1>0, <1>s, <2>0, <2>1, <2>3, <3>2 DEF Running, Others, Shell, Alive
  <2>4. CASE shell' = [shell EXCEPT ![h] = new] /\ sock' = sock
    <3> HIDE DEF new
    <3> QED BY <1>0, <1>s, <2>0, <2>1, <2>4 DEF Typed, Running, Others, Alive
  <2> QED BY <1>2, <2>2, <2>3, <2>4 DEF Prints
<1>3. CASE Drain(h)
  <2>1. shell' = [shell EXCEPT ![h].paused = FALSE] /\ sock' = sock /\ shell[h].paused
    BY <1>3 DEF Drain
  <2>2. Alive(h)
    BY <2>1, <1>0, BareShell DEF Attached, Alive, Shell
  <2>3. Typed
    BY <1>0, <1>s, <2>1 DEF Typed, Shell
  <2> QED BY <1>0, <1>s, <2>1, <2>2, <2>3 DEF Running, Others, Shell, Alive
<1>4. CASE ShellEnds(h)
  BY <1>4, <1>r, <1>e, ShellFields DEF ShellEnds, Alive
<1>5. CASE DetachTimeout(h)
  <2>1. shell[h].st # "none"
    BY <1>5, BareShell DEF DetachTimeout, Attached
  <2> QED BY <1>5, <1>r, <1>e, <2>1 DEF DetachTimeout
<1> QED BY <1>1, <1>2, <1>3, <1>4, <1>5

LEMMA RestartSteps == ASSUME TypeOK, Restart PROVE Typed /\ Stopping
  BY ShellFields, ZenonT(60) DEF TypeOK, Restart, Typed, Sock, Stopping, Stays, Goes

\* When there is an unused socket, there is a first one.
Unused == {n \in Sockets : sock[n].at = "unused"}
LEMMA FirstUnused ==
    ASSUME \E n \in Sockets : sock[n].at = "unused"
    PROVE  \E n \in Sockets : sock[n].at = "unused" /\ \A m \in 1 .. n - 1 : sock[m].at # "unused"
<1>0. MaxSockets \in Nat
  BY Numbers
<1>1. Unused # {} /\ Unused \subseteq Nat
  BY <1>0 DEF Unused, Sockets
<1>2. \E n \in Unused : \A m \in Unused : ~(<<m, n>> \in OpToRel(<, Nat))
  BY <1>1, NatLessThanWellFounded, WFMin
<1>3. \E n \in Unused : \A m \in Unused : ~(m < n)
  BY <1>1, <1>2 DEF OpToRel
<1> QED BY <1>0, <1>3 DEF Unused, Sockets

\* The sockets a window uses.
LEMMA WindowSteps ==
    ASSUME TypeOK, NEW w \in Windows, NEW b \in BOOLEAN,
           Dial(w) \/ Receive(w) \/ Leaves(w, b) \/ Dispose(w, b)
    PROVE  Typed /\ Aside
<1>0. shell' = shell /\ sock \in [Sockets -> Sock] /\ win[w] \in Win
  BY DEF Dial, Receive, Leaves, Dispose, TypeOK
<1>1. CASE Receive(w) \/ Leaves(w, b)
  BY <1>0, <1>1 DEF Receive, Leaves, Typed, Aside, Stays, TypeOK
<1>2. CASE Dispose(w, b)
  <2>1. CASE sock' = sock
    BY <1>0, <2>1 DEF Typed, Aside, Stays, TypeOK
  <2>2. CASE win[w].cur \in Sockets /\ sock' = [sock EXCEPT ![win[w].cur].bye = TRUE]
    BY <1>0, <2>2, ByeStays DEF Typed, Aside, TypeOK
  <2> QED BY <1>0, <1>2, <2>1, <2>2 DEF Dispose, Win, ShellId
<1>3. CASE Dial(w)
  <2>1. PICK s \in Sockets :
          /\ sock[s].at = "unused"
          /\ sock' = [sock EXCEPT ![s] = [at |-> "dialing", open |-> TRUE, sh |-> None,
                        resume |-> win[w].id, bye |-> FALSE,
                        offset |-> IF win[w].id = None THEN 0 ELSE win[w].got]]
    BY <1>3, FirstUnused DEF Dial
  <2>2. sock'[s] \in Sock /\ sock'[s].at = "dialing" /\ sock'[s].resume = win[w].id
    BY <1>0, <2>1, Numbers DEF Win, Sock, ShellId, Offset
  <2>3. \A r \in Sockets \ {s} : sock'[r] = sock[r]
    BY <1>0, <2>1
  <2> QED BY <1>0, <2>1, <2>2, <2>3 DEF Typed, Aside, Stays, TypeOK
<1> QED BY <1>1, <1>2, <1>3

LEMMA ShapeStep == ASSUME TypeOK, Attached, FirstSocket, [Next]_vars PROVE Typed /\ Shape
<1>1. ASSUME NEW s \in Sockets, Handle(s) \/ Authorize(s) \/ Revalidate(s) \/ Close(s)
                                \/ ByeArrives(s)
      PROVE  Typed /\ Shape
  BY <1>1, EarlySteps, CreateSteps, ClaimSteps, AttachSteps, LeavingSteps
     DEF Handle, Authorize, Revalidate, Shape
<1>2. ASSUME NEW h \in Sockets, \/ ShellOpens(h) \/ Prints(h) \/ Drain(h) \/ ShellEnds(h)
                                \/ DetachTimeout(h)
      PROVE  Typed /\ Shape
  BY <1>2, ShellSteps DEF Shape
<1>3. CASE Restart
  BY <1>3, RestartSteps DEF Shape
<1>4. ASSUME NEW w \in Windows, NEW b \in BOOLEAN,
             Dial(w) \/ Receive(w) \/ Leaves(w, b) \/ Dispose(w, b)
      PROVE  Typed /\ Shape
  BY <1>4, WindowSteps DEF Shape
<1>5. CASE UNCHANGED vars
  BY <1>5 DEF vars, Typed, Shape, Aside, Stays, TypeOK
<1> QED BY <1>1, <1>2, <1>3, <1>4, <1>5 DEF Next

-----------------------------------------------------------------------------
\* Shells and their handlers.

LEMMA AttachedStep ==
    ASSUME TypeOK, Attached, FirstSocket, Shape, Typed PROVE Attached'
<1>0. /\ \A s \in Sockets : sock[s].at \in Serving => sock[s].sh \in Sockets
      /\ \A h \in Sockets : shell[h].att # None =>
            sock[shell[h].att].at = "on" /\ sock[shell[h].att].sh = h
      /\ \A h \in Sockets : shell[h].st \in {"none", "new", "ended"} => shell[h] = Bare(shell[h].st)
      /\ \A h \in Sockets : shell[h].att \in Sockets \cup {None}
  BY ShellFields DEF Attached
<1> DEFINE A == /\ \A s \in Sockets : sock'[s].at \in Serving => sock'[s].sh \in Sockets
                /\ \A h \in Sockets : shell'[h].att # None =>
                      sock'[shell'[h].att].at = "on" /\ sock'[shell'[h].att].sh = h
                /\ \A h \in Sockets : shell'[h].st \in {"none", "new", "ended"}
                                         => shell'[h] = Bare(shell'[h].st)
<1>1. ASSUME Aside PROVE A
  BY <1>0, <1>1, Numbers DEF Aside, Stays, Goes, Serving
<1>2. ASSUME Stopping PROVE A
  BY <1>0, <1>2, BareShell DEF Stopping, Stays, Goes, Serving, NoShell, EndedShell
<1>3. ASSUME NEW h \in Sockets, Parting(h) PROVE A
  <2>1. shell'[h].att = None /\ (shell'[h].st # "live" => shell'[h] = Bare("ended"))
    BY <1>3, BareShell DEF Parting, Rested, EndedShell
  <2>2. \A g \in Sockets \ {h} : shell'[g] = shell[g]
    BY <1>3 DEF Parting, Others
  <2>3. \A s \in Sockets : Stays(s) \/ (Goes(s) /\ (sock[s].at \in Serving => sock[s].sh = h))
    BY <1>3 DEF Parting
  <2> QED BY <1>0, <2>1, <2>2, <2>3, BareShell DEF Stays, Goes, Serving
<1>4. ASSUME NEW h \in Sockets, Running(h) PROVE A
  BY <1>0, <1>4, Numbers DEF Running, Others, Stays, Serving, Alive
<1>5. ASSUME NEW s \in Sockets, Creating(s) PROVE A
  BY <1>0, <1>5, BareShell, Numbers DEF Creating, Others, Stays, Serving, NewShell
<1>6. ASSUME NEW s \in Sockets, NEW h \in Sockets, Taking(s, h) PROVE A
  <2>1. shell'[h].att = None /\ shell'[h].st = shell[h].st /\ Alive(h)
    BY <1>6, ShellFields DEF Taking, Shell
  <2>2. /\ \A g \in Sockets \ {h} : shell'[g] = shell[g]
        /\ sock'[s].at = "auth" /\ sock'[s].sh = h /\ sock[s].at = "dialing"
        /\ \A r \in Sockets \ {s} : Stays(r) \/ (Goes(r) /\ sock[r].at = "on" /\ sock[r].sh = h)
    BY <1>6 DEF Taking, Others
  <2> QED BY <1>0, <2>1, <2>2, Numbers DEF Stays, Goes, Serving, Alive
<1>7. ASSUME NEW s \in Sockets, NEW h \in Sockets, Attaching(s, h) PROVE A
  <2>1. h # s => shell[h].st = "live"
    BY <1>7 DEF Attaching, FirstSocket, Serving, Known
  <2>2. shell'[h].att = s /\ shell'[h].st \notin {"none", "new", "ended"}
    BY <1>7, <2>1, ShellFields DEF Attaching, Shell
  <2>3. /\ \A g \in Sockets \ {h} : shell'[g] = shell[g]
        /\ sock'[s].at = "on" /\ sock'[s].sh = h /\ sock[s].at = "auth"
        /\ \A r \in Sockets \ {s} : Stays(r)
    BY <1>7 DEF Attaching, Others
  <2> QED BY <1>0, <2>2, <2>3, Numbers DEF Stays, Serving
<1> QED BY <1>1, <1>2, <1>3, <1>4, <1>5, <1>6, <1>7, Zenon DEF Shape, Attached

LEMMA NoOrphanStep ==
    ASSUME TypeOK, Attached, FirstSocket, NoOrphan, Shape, Typed PROVE NoOrphan'
<1> SUFFICES ASSUME NEW g \in Sockets, shell'[g].st \in {"new", "connecting", "live"}
             PROVE  \/ shell'[g].att # None \/ shell'[g].det
                    \/ \E s \in Sockets : sock'[s].at = "auth" /\ sock'[s].sh = g
  BY DEF NoOrphan
<1>0. ASSUME shell'[g] = shell[g],
             \A s \in Sockets : sock[s].at = "auth" /\ sock[s].sh = g
                => sock'[s].at = "auth" /\ sock'[s].sh = g
      PROVE  \/ shell'[g].att # None \/ shell'[g].det
             \/ \E s \in Sockets : sock'[s].at = "auth" /\ sock'[s].sh = g
  BY <1>0 DEF NoOrphan
<1>1. CASE Aside
  BY <1>0, <1>1 DEF Aside, Stays
<1>2. CASE Stopping
  BY <1>2, BareShell DEF Stopping, NoShell, EndedShell
<1>3. ASSUME NEW h \in Sockets, Parting(h)
      PROVE  \/ shell'[g].att # None \/ shell'[g].det
             \/ \E s \in Sockets : sock'[s].at = "auth" /\ sock'[s].sh = g
  <2>1. CASE g = h
    BY <1>3, <2>1, BareShell DEF Parting, Rested, EndedShell
  <2>2. CASE g # h
    BY <1>0, <1>3, <2>2 DEF Parting, Others, Stays, Goes, Serving
  <2> QED BY <2>1, <2>2
<1>4. ASSUME NEW h \in Sockets, Running(h)
      PROVE  \/ shell'[g].att # None \/ shell'[g].det
             \/ \E s \in Sockets : sock'[s].at = "auth" /\ sock'[s].sh = g
  <2>1. CASE g = h
    <3>1. shell[h].st \in {"new", "connecting", "live"}
      BY <1>4 DEF Running, Alive
    <3> QED BY <1>4, <2>1, <3>1 DEF Running, Stays, NoOrphan
  <2> QED BY <1>0, <1>4, <2>1 DEF Running, Others, Stays
<1>5. ASSUME NEW s \in Sockets, Creating(s)
      PROVE  \/ shell'[g].att # None \/ shell'[g].det
             \/ \E r \in Sockets : sock'[r].at = "auth" /\ sock'[r].sh = g
  BY <1>0, <1>5 DEF Creating, Others, Stays
<1>6. ASSUME NEW s \in Sockets, NEW h \in Sockets, Taking(s, h)
      PROVE  \/ shell'[g].att # None \/ shell'[g].det
             \/ \E r \in Sockets : sock'[r].at = "auth" /\ sock'[r].sh = g
  BY <1>0, <1>6 DEF Taking, Others, Stays, Goes
<1>7. ASSUME NEW s \in Sockets, NEW h \in Sockets, Attaching(s, h)
      PROVE  \/ shell'[g].att # None \/ shell'[g].det
             \/ \E r \in Sockets : sock'[r].at = "auth" /\ sock'[r].sh = g
  <2>1. shell'[h].att = s
    BY <1>7, ShellFields DEF Attaching, Shell
  <2>2. /\ \A f \in Sockets \ {h} : shell'[f] = shell[f]
        /\ sock[s].sh = h /\ \A r \in Sockets \ {s} : Stays(r)
    BY <1>7 DEF Attaching, Others
  <2> QED BY <1>0, <2>1, <2>2, Numbers DEF Stays
<1> QED BY <1>1, <1>2, <1>3, <1>4, <1>5, <1>6, <1>7 DEF Shape

LEMMA PausedStep ==
    ASSUME TypeOK, Attached, PausedHasReader, Shape, Typed PROVE PausedHasReader'
<1> SUFFICES ASSUME NEW g \in Sockets, shell'[g].paused
             PROVE  \/ shell'[g].att # None
                    \/ \E s \in Sockets : sock'[s].at = "auth" /\ sock'[s].sh = g
  BY DEF PausedHasReader
<1>0. ASSUME shell'[g] = shell[g],
             \A s \in Sockets : sock[s].at = "auth" /\ sock[s].sh = g
                => sock'[s].at = "auth" /\ sock'[s].sh = g
      PROVE  \/ shell'[g].att # None
             \/ \E s \in Sockets : sock'[s].at = "auth" /\ sock'[s].sh = g
  BY <1>0 DEF PausedHasReader
<1>1. CASE Aside
  BY <1>0, <1>1 DEF Aside, Stays
<1>2. CASE Stopping
  BY <1>2, BareShell DEF Stopping, NoShell, EndedShell
<1>3. ASSUME NEW h \in Sockets, Parting(h)
      PROVE  \/ shell'[g].att # None
             \/ \E s \in Sockets : sock'[s].at = "auth" /\ sock'[s].sh = g
  <2>1. CASE g = h
    BY <1>3, <2>1, BareShell DEF Parting, Rested, EndedShell
  <2>2. CASE g # h
    BY <1>0, <1>3, <2>2 DEF Parting, Others, Stays, Goes, Serving
  <2> QED BY <2>1, <2>2
<1>4. ASSUME NEW h \in Sockets, Running(h)
      PROVE  \/ shell'[g].att # None
             \/ \E s \in Sockets : sock'[s].at = "auth" /\ sock'[s].sh = g
  <2>1. CASE g = h
    BY <1>4, <2>1 DEF Running, Stays, PausedHasReader
  <2> QED BY <1>0, <1>4, <2>1 DEF Running, Others, Stays
<1>5. ASSUME NEW s \in Sockets, Creating(s)
      PROVE  \/ shell'[g].att # None
             \/ \E r \in Sockets : sock'[r].at = "auth" /\ sock'[r].sh = g
  BY <1>0, <1>5, BareShell DEF Creating, Others, Stays, NewShell
<1>6. ASSUME NEW s \in Sockets, NEW h \in Sockets, Taking(s, h)
      PROVE  \/ shell'[g].att # None
             \/ \E r \in Sockets : sock'[r].at = "auth" /\ sock'[r].sh = g
  BY <1>0, <1>6 DEF Taking, Others, Stays, Goes
<1>7. ASSUME NEW s \in Sockets, NEW h \in Sockets, Attaching(s, h)
      PROVE  \/ shell'[g].att # None
             \/ \E r \in Sockets : sock'[r].at = "auth" /\ sock'[r].sh = g
  <2>1. shell'[h].att = s
    BY <1>7, ShellFields DEF Attaching, Shell
  <2>2. /\ \A f \in Sockets \ {h} : shell'[f] = shell[f]
        /\ sock[s].sh = h /\ \A r \in Sockets \ {s} : Stays(r)
    BY <1>7 DEF Attaching, Others
  <2> QED BY <1>0, <2>1, <2>2, Numbers DEF Stays
<1> QED BY <1>1, <1>2, <1>3, <1>4, <1>5, <1>6, <1>7 DEF Shape

LEMMA CapStep == ASSUME TypeOK, CapRespected, Shape, Typed PROVE CapRespected'
<1> DEFINE D == {g \in Sockets : shell[g].det}
           E == {g \in Sockets : shell'[g].det}
<1>0. /\ IsFiniteSet(D) /\ IsFiniteSet(E) /\ Cardinality(D) \in Nat /\ Cardinality(E) \in Nat
      /\ Cardinality(D) <= MaxDetached /\ MaxDetached \in Nat
  BY Numbers, FS_Subset, FS_CardinalityType DEF CapRespected
<1>1. CASE E \subseteq D
  <2>1. Cardinality(E) <= Cardinality(D)
    BY <1>0, <1>1, FS_Subset
  <2> QED BY <1>0, <2>1 DEF CapRespected
<1>2. ASSUME NEW h \in Sockets, Parting(h), shell'[h] # EndedShell PROVE CapRespected'
  <2> DEFINE F == {g \in Sockets \ {h} : shell[g].det}
  <2>1. Cardinality(F) < MaxDetached
    BY <1>2 DEF Parting, Rested
  <2>2. E \subseteq F \cup {h}
    BY <1>2 DEF Parting, Others
  <2>3. IsFiniteSet(F)
    BY Numbers, FS_Subset
  <2>4. IsFiniteSet(F \cup {h}) /\ Cardinality(F \cup {h}) = Cardinality(F) + 1
        /\ Cardinality(F) \in Nat
    BY <2>3, FS_AddElement, FS_CardinalityType
  <2>5. Cardinality(E) <= Cardinality(F) + 1
    BY <2>2, <2>4, FS_Subset
  <2> QED BY <1>0, <2>1, <2>4, <2>5 DEF CapRespected
<1>3. ASSUME ~(\E h \in Sockets : Parting(h) /\ shell'[h] # EndedShell), NEW g \in E PROVE g \in D
  <2>1. CASE Aside
    BY <2>1 DEF Aside
  <2>2. CASE Stopping
    BY <2>2, BareShell DEF Stopping, NoShell, EndedShell
  <2>3. ASSUME NEW h \in Sockets, Parting(h) PROVE g \in D
    BY <1>3, <2>3, BareShell DEF Parting, Others, EndedShell
  <2>4. ASSUME NEW h \in Sockets, Running(h) PROVE g \in D
    BY <2>4 DEF Running, Others
  <2>5. ASSUME NEW s \in Sockets, Creating(s) PROVE g \in D
    BY <2>5, BareShell DEF Creating, Others, NewShell
  <2>6. ASSUME NEW s \in Sockets, NEW h \in Sockets, Taking(s, h) PROVE g \in D
    <3>1. ~shell'[h].det
      BY <2>6, ShellFields DEF Taking, Shell
    <3> QED BY <2>6, <3>1 DEF Taking, Others
  <2>7. ASSUME NEW s \in Sockets, NEW h \in Sockets, Attaching(s, h) PROVE g \in D
    <3>1. shell'[h].det = shell[h].det
      BY <2>7, ShellFields DEF Attaching, Shell
    <3> QED BY <2>7, <3>1 DEF Attaching, Others
  <2> HIDE DEF D, E
  <2> QED BY <2>1, <2>2, <2>3, <2>4, <2>5, <2>6, <2>7 DEF Shape
<1> QED BY <1>1, <1>2, <1>3

LEMMA FirstSocketStep ==
    ASSUME TypeOK, Attached, FirstSocket, WindowKnows, Shape, Typed PROVE FirstSocket'
<1> DEFINE F(s) ==
        /\ sock'[s].at \in {"unused", "dialing"} => shell'[s].st = "none"
        /\ sock'[s].at = "auth" /\ sock'[s].sh = s => shell'[s].st \in {"new", "ended"}
        /\ shell'[s].st = "connecting" => shell'[s].att = s /\ shell'[s].end = 0
        /\ sock'[s].at \in Serving /\ sock'[s].sh # s => shell'[sock'[s].sh].st \in Known
        /\ sock'[s].at = "auth" /\ sock'[s].sh # s => sock'[s].sh = sock'[s].resume
        /\ sock'[s].resume # None => shell'[sock'[s].resume].st \in Known
<1> SUFFICES ASSUME NEW s \in Sockets PROVE F(s)
  BY DEF FirstSocket
<1>0. /\ sock[s].at \in {"unused", "dialing"} => shell[s].st = "none"
      /\ sock[s].at = "auth" /\ sock[s].sh = s => shell[s].st \in {"new", "ended"}
      /\ shell[s].st = "connecting" => shell[s].att = s /\ shell[s].end = 0
      /\ sock[s].at \in Serving /\ sock[s].sh # s => shell[sock[s].sh].st \in Known
      /\ sock[s].at = "auth" /\ sock[s].sh # s => sock[s].sh = sock[s].resume
      /\ sock[s].resume # None => shell[sock[s].resume].st \in Known
  BY DEF FirstSocket
<1>a. /\ sock[s].sh \in Sockets \cup {None} /\ sock[s].resume \in Sockets \cup {None}
      /\ sock[s].at \in Serving => sock[s].sh \in Sockets
  BY SockFields DEF Attached
<1>1. CASE Aside
  <2>1. \A w \in Windows : win[w].id # None => shell[win[w].id].st \in Known
    BY DEF WindowKnows
  <2> QED BY <1>0, <1>1, <2>1 DEF Aside, Stays, Goes, Serving
<1>2. CASE Stopping
  <2>1. /\ \A h \in Sockets :
               (shell'[h].st = "none" /\ shell[h].st = "none") \/ shell'[h].st = "ended"
        /\ \A h \in Sockets : shell[h].st \in Known => shell'[h].st = "ended"
    BY <1>2, BareShell DEF Stopping, Known, NoShell, EndedShell
  <2>2. (Stays(s) /\ sock[s].at = "unused") \/ Goes(s)
    BY <1>2 DEF Stopping
  <2>3. shell[s].st = "none" => shell'[s].st = "none"
    BY <1>2, BareShell DEF Stopping, NoShell
  <2> QED BY <1>0, <1>a, <2>1, <2>2, <2>3 DEF Stays, Goes, Serving, Known
<1>3. ASSUME NEW h \in Sockets, Parting(h) PROVE F(s)
  <2>1. shell'[h].st \in Known /\ \A g \in Sockets \ {h} : shell'[g] = shell[g]
    BY <1>3, BareShell DEF Parting, Rested, EndedShell, Others, Known
  <2>2. shell'[h].st = "live" => shell[h].st = "live"
    BY <1>3, BareShell DEF Parting, Rested, EndedShell
  <2>3. Stays(s) \/ (Goes(s) /\ sock[s].at # "unused")
    BY <1>3 DEF Parting
  <2>4. sock[h].at \notin {"unused", "dialing"}
    BY <1>3 DEF Parting
  <2> QED BY <1>0, <1>a, <2>1, <2>2, <2>3, <2>4 DEF Stays, Goes, Serving, Known
<1>4. ASSUME NEW h \in Sockets, Running(h) PROVE F(s)
  <2>1. /\ \A g \in Sockets \ {h} : shell'[g] = shell[g]
        /\ shell'[h].att = shell[h].att /\ Alive(h) /\ shell'[h].st \in {"connecting", "live"}
        /\ shell'[h].st = "connecting" => shell[h].st = "connecting" /\ shell'[h].end = shell[h].end
        /\ shell[h].st = "live" => shell'[h].st = "live"
        /\ Stays(s)
    BY <1>4 DEF Running, Others, Alive
  <2> QED BY <1>0, <1>a, <2>1 DEF Stays, Known, Alive, Serving
<1>5. ASSUME NEW r \in Sockets, Creating(r) PROVE F(s)
  <2>1. /\ \A g \in Sockets \ {r} : shell'[g] = shell[g]
        /\ shell'[r].st = "new" /\ shell[r].st = "none"
        /\ sock'[r].at = "auth" /\ sock'[r].sh = r /\ sock'[r].resume = sock[r].resume
        /\ s # r => Stays(s)
    BY <1>5, BareShell DEF Creating, Others, NewShell, FirstSocket
  <2> QED BY <1>0, <1>a, <2>1 DEF Stays, Known, Serving
<1>6. ASSUME NEW r \in Sockets, NEW h \in Sockets, Taking(r, h) PROVE F(s)
  <2>0. shell[h].st = "live" /\ h # r
    BY <1>6, Numbers DEF Taking, FirstSocket, Alive, Known
  <2>1. shell'[h].st = "live" /\ shell[h].st = "live" /\ h # r
    BY <1>6, <2>0, ShellFields DEF Taking, Shell
  <2>2. /\ \A g \in Sockets \ {h} : shell'[g] = shell[g]
        /\ sock'[r].at = "auth" /\ sock'[r].sh = h /\ sock[r].resume = h
        /\ sock'[r].resume = sock[r].resume
        /\ s # r => Stays(s) \/ (Goes(s) /\ sock[s].at = "on")
    BY <1>6 DEF Taking, Others
  <2> QED BY <1>0, <1>a, <2>1, <2>2 DEF Stays, Goes, Known, Serving
<1>7. ASSUME NEW r \in Sockets, NEW h \in Sockets, Attaching(r, h) PROVE F(s)
  <2>1. CASE h = r
    <3>1. shell[r].st = "new" /\ sock[r].at = "auth" /\ sock[r].sh = r
      BY <1>7, <2>1 DEF Attaching, FirstSocket
    <3>2. shell[r].end = 0
      BY <3>1, BareShell DEF Attached
    <3>3. shell'[r].st = "connecting" /\ shell'[r].att = r /\ shell'[r].end = 0
      <4>1. shell'[r] = [shell[r] EXCEPT !.att = r, !.st = "connecting"]
        BY <1>7, <2>1 DEF Attaching
      <4> QED BY <3>2, <4>1, ShellFields DEF Shell
    <3>4. /\ \A g \in Sockets \ {r} : shell'[g] = shell[g]
          /\ sock'[r].at = "on" /\ sock'[r].sh = r /\ sock'[r].resume = sock[r].resume
          /\ s # r => Stays(s)
      BY <1>7, <2>1 DEF Attaching, Others
    <3> QED BY <1>0, <1>a, <3>1, <3>3, <3>4 DEF Stays, Known, Serving
  <2>2. CASE h # r
    <3>1. shell[h].st = "live" /\ sock[r].at = "auth"
      BY <1>7, <2>2 DEF Attaching, FirstSocket, Serving, Known
    <3>2. shell'[h].st = "live"
      BY <1>7, <2>2, <3>1, ShellFields DEF Attaching, Shell
    <3>3. /\ \A g \in Sockets \ {h} : shell'[g] = shell[g]
          /\ sock'[r].at = "on" /\ sock'[r].sh = h /\ sock'[r].resume = sock[r].resume
          /\ s # r => Stays(s)
      BY <1>7 DEF Attaching, Others
    <3>4. sock[h].at # "dialing" /\ sock[h].at # "unused"
      BY <3>1 DEF FirstSocket
    <3> QED BY <1>0, <1>a, <2>2, <3>1, <3>2, <3>3, <3>4 DEF Stays, Known, Serving
  <2> QED BY <2>1, <2>2
<1> HIDE DEF F
<1> QED BY <1>1, <1>2, <1>3, <1>4, <1>5, <1>6, <1>7 DEF Shape

LEMMA HistoryStep == ASSUME TypeOK, HistoryKept, Shape, Typed PROVE HistoryKept'
<1> SUFFICES ASSUME NEW g \in Sockets PROVE shell'[g].start <= shell'[g].end
  BY DEF HistoryKept
<1>0. shell[g].start <= shell[g].end
  BY DEF HistoryKept
<1>1. CASE Aside
  BY <1>0, <1>1 DEF Aside
<1>2. CASE Stopping
  BY <1>2, BareShell DEF Stopping, NoShell, EndedShell
<1>3. ASSUME NEW h \in Sockets, Parting(h) \/ Running(h) \/ Creating(h)
      PROVE  shell'[g].start <= shell'[g].end
  BY <1>0, <1>3, BareShell
     DEF Parting, Running, Creating, Others, Rested, EndedShell, NewShell
<1>4. ASSUME NEW s \in Sockets, NEW h \in Sockets, Taking(s, h) \/ Attaching(s, h)
      PROVE  shell'[g].start <= shell'[g].end
  <2>1. shell'[h].start = shell[h].start /\ shell'[h].end = shell[h].end
    BY <1>4, ShellFields, ZenonT(60) DEF Taking, Attaching, Shell
  <2> QED BY <1>0, <1>4, <2>1 DEF Taking, Attaching, Others
<1> QED BY <1>1, <1>2, <1>3, <1>4 DEF Shape

\* What is known of a shell that was opened stays known, and no byte is taken back.
Grows(h) == shell[h].st \in Known =>
                /\ shell'[h].st \in Known
                /\ shell'[h].st = "live" => shell[h].st = "live" /\ shell'[h].end >= shell[h].end
LEMMA GrowsStep == ASSUME TypeOK, FirstSocket, Shape, NEW g \in Sockets PROVE Grows(g)
<1>0. shell[g].end \in Int
  BY ShellFields
<1>1. CASE Aside
  BY <1>0, <1>1 DEF Aside, Grows
<1>2. CASE Stopping
  BY <1>2, BareShell DEF Stopping, NoShell, EndedShell, Grows, Known
<1>3. ASSUME NEW h \in Sockets, Parting(h) \/ Running(h) PROVE Grows(g)
  BY <1>0, <1>3, BareShell DEF Parting, Running, Alive, Others, Rested, EndedShell, Grows, Known
<1>4. ASSUME NEW h \in Sockets, Creating(h) PROVE Grows(g)
  BY <1>0, <1>4 DEF Creating, FirstSocket, Others, Grows, Known
<1>5. ASSUME NEW s \in Sockets, NEW h \in Sockets, Taking(s, h) PROVE Grows(g)
  <2>1. shell'[h].st = shell[h].st /\ shell'[h].end = shell[h].end
    BY <1>5, ShellFields DEF Taking, Shell
  <2>2. g # h => shell'[g] = shell[g]
    BY <1>5 DEF Taking, Others
  <2> QED BY <1>0, <2>1, <2>2 DEF Grows
<1>6. ASSUME NEW s \in Sockets, NEW h \in Sockets, Attaching(s, h) PROVE Grows(g)
  <2>1. shell'[h].st = (IF h = s THEN "connecting" ELSE shell[h].st) /\ shell'[h].end = shell[h].end
    BY <1>6, ShellFields DEF Attaching, Shell
  <2>2. h = s => shell[h].st \notin Known
    BY <1>6 DEF Attaching, FirstSocket, Known
  <2>3. g # h => shell'[g] = shell[g]
    BY <1>6 DEF Attaching, Others
  <2> QED BY <1>0, <2>1, <2>2, <2>3 DEF Grows
<1> QED BY <1>1, <1>2, <1>3, <1>4, <1>5, <1>6 DEF Shape

\* A handler keeps what it was asked for, and the shell it has.
SockKeeps(s) ==
    /\ sock'[s].at \in {"unused", "dialing", "auth"} =>
          /\ sock[s].at \in {"unused", "dialing", "auth"}
          /\ sock'[s].at = "unused" => sock[s].at = "unused"
    /\ sock'[s].at \in {"dialing", "auth"} /\ sock[s].at # "unused" =>
          sock'[s].resume = sock[s].resume /\ sock'[s].offset = sock[s].offset
    /\ sock[s].at \notin {"unused", "dialing"} => sock'[s].sh = sock[s].sh
    /\ sock[s].at = "over" => sock'[s].at = "over"
    /\ sock'[s].at = "on" => sock[s].at = "on" \/ Attaching(s, sock[s].sh)
LEMMA SockKeepsStep == ASSUME TypeOK, Shape, NEW s \in Sockets PROVE SockKeeps(s)
<1>1. CASE Stays(s)
  BY <1>1 DEF Stays, SockKeeps
<1>2. CASE Goes(s)
  BY <1>2 DEF Goes, SockKeeps
<1>3. CASE Aside
  BY <1>1, <1>3 DEF Aside, SockKeeps, Goes
<1>4. CASE Stopping \/ \E h \in Sockets : Parting(h) \/ Running(h)
  BY <1>1, <1>2, <1>4 DEF Stopping, Parting, Running
<1>5. ASSUME NEW r \in Sockets, Creating(r) PROVE SockKeeps(s)
  BY <1>1, <1>5 DEF Creating, SockKeeps
<1>6. ASSUME NEW r \in Sockets, NEW h \in Sockets, Taking(r, h) PROVE SockKeeps(s)
  BY <1>1, <1>2, <1>6 DEF Taking, SockKeeps
<1>7. ASSUME NEW r \in Sockets, NEW h \in Sockets, Attaching(r, h) PROVE SockKeeps(s)
  <2>1. CASE r = s
    <3>1. /\ sock[s].at = "auth" /\ sock[s].sh = h /\ sock'[s].at = "on" /\ sock'[s].sh = h
          /\ sock'[s].resume = sock[s].resume /\ sock'[s].offset = sock[s].offset
      BY <1>7, <2>1 DEF Attaching
    <3> QED BY <1>7, <2>1, <3>1 DEF SockKeeps
  <2>2. CASE r # s
    BY <1>1, <1>7, <2>2 DEF Attaching
  <2> QED BY <2>1, <2>2
<1> QED BY <1>3, <1>4, <1>5, <1>6, <1>7 DEF Shape

-----------------------------------------------------------------------------
\* The shapes of a step, as far as messages go.

OtherMail(s) == \A r \in Sockets \ {s} : down'[r] = down[r]
Sent(s, m) == /\ Len(down'[s]) = Len(down[s]) + 1 /\ down'[s][Len(down[s]) + 1] = m
              /\ \A i \in 1 .. Len(down[s]) : down'[s][i] = down[s][i]

\* A socket that somebody reads is attached as before, to a shell that prints nothing.
Keeps(h) ==
    shell'[h].st = "live" /\ shell'[h].att # None /\ Read(shell'[h].att) =>
        shell[h].st = "live" /\ shell'[h].att = shell[h].att /\ shell'[h].end = shell[h].end

Silent == down' = down /\ win' = win /\ \A h \in Sockets : Keeps(h)

\* The last message of a socket.
Telling(s) ==
    /\ win' = win /\ OtherMail(s) /\ (\E m : m.t \in Ends /\ Sent(s, m))
    /\ sock[s].at \notin {"unused", "over"} /\ Goes(s) /\ \A h \in Sockets : Keeps(h)

\* The greeting of a socket that continues a shell, and what its window has missed.
Greeting(s, h) ==
    /\ win' = win /\ OtherMail(s) /\ Attaching(s, h) /\ h # s
    /\ \E from \in 0 .. shell[h].end :
          /\ Len(down'[s]) = IF from < shell[h].end THEN 2 ELSE 1
          /\ down'[s][1] = Session(h, from, sock[s].offset < shell[h].start)
          /\ from < shell[h].end => down'[s][2] = Output(h, from, shell[h].end)
          /\ sock[s].offset < shell[h].start => from > sock[s].offset
          /\ sock[s].offset >= shell[h].start /\ sock[s].offset <= shell[h].end
                => from = sock[s].offset

\* The shell h is open.
Opening(h) ==
    /\ win' = win /\ sock' = sock /\ Others(h) /\ OtherMail(h) /\ Sent(h, Session(h, 0, FALSE))
    /\ shell[h].st = "connecting" /\ shell'[h].st = "live"
    /\ shell'[h].att = shell[h].att /\ shell'[h].end = shell[h].end

Printing(h) ==
    /\ win' = win /\ sock' = sock /\ Others(h) /\ shell[h].att \in Sockets
    /\ OtherMail(shell[h].att)
    /\ Sent(shell[h].att, Output(h, shell[h].end, shell[h].end + 1))
    /\ shell[h].st = "live" /\ shell'[h].st = "live"
    /\ shell'[h].att = shell[h].att /\ shell'[h].end = shell[h].end + 1

Browsing == \E w \in Windows : \/ Dial(w) \/ Receive(w)
                               \/ \E b \in BOOLEAN : Leaves(w, b) \/ Dispose(w, b)

Mail == \/ Silent \/ Browsing
        \/ \E s \in Sockets : Telling(s) \/ Opening(s) \/ Printing(s)
                              \/ \E h \in Sockets : Greeting(s, h)

-----------------------------------------------------------------------------
LEMMA QueueOne ==
    ASSUME TypeOK, NEW s \in Sockets, NEW m \in Message, down' = Queue(s, <<m>>)
    PROVE  /\ down' \in [Sockets -> Seq(Message)] /\ OtherMail(s)
           /\ Read(s) => Sent(s, m)
           /\ ~Read(s) => down' = down
<1>1. CASE Read(s)
  <2>1. down' = [down EXCEPT ![s] = down[s] \o <<m>>] /\ down \in [Sockets -> Seq(Message)]
    BY <1>1 DEF Queue, TypeOK
  <2>2. <<m>> \in Seq(Message) /\ Len(<<m>>) = 1 /\ <<m>>[1] = m
    OBVIOUS
  <2>3. Len(down[s]) \in Nat /\ down[s] \in Seq(Message)
    BY <2>1
  <2> DEFINE q == down[s] \o <<m>>
  <2>4. /\ q \in Seq(Message) /\ Len(q) = Len(down[s]) + 1
        /\ \A i \in 1 .. Len(down[s]) + 1 : q[i] = IF i <= Len(down[s]) THEN down[s][i]
                                                   ELSE <<m>>[i - Len(down[s])]
    BY <2>2, <2>3, ConcatProperties
  <2> HIDE DEF q
  <2>5. q[Len(down[s]) + 1] = m /\ \A i \in 1 .. Len(down[s]) : q[i] = down[s][i]
    BY <2>2, <2>3, <2>4
  <2>6. down' = [down EXCEPT ![s] = q]
    BY <2>1 DEF q
  <2> QED BY <1>1, <2>1, <2>4, <2>5, <2>6 DEF OtherMail, Sent
<1>2. CASE ~Read(s)
  BY <1>2 DEF Queue, TypeOK, OtherMail
<1> QED BY <1>1, <1>2

LEMMA Notices ==
    ASSUME NEW cut \in BOOLEAN
    PROVE  /\ Closed(cut) \in Message /\ Closed(cut).t \in Ends
           /\ Error \in Message /\ Error.t \in Ends
  BY Numbers DEF Closed, Error, Notice, Message, ShellId, Offset, Ends

\* A step in which a socket may get its last message.
LEMMA Notified ==
    ASSUME TypeOK, NEW s \in Sockets, win' = win, \A h \in Sockets : Keeps(h),
           \/ down' = down
           \/ /\ \E m \in Message : m.t \in Ends /\ down' = Queue(s, <<m>>)
              /\ sock[s].at \notin {"unused", "over"} /\ Goes(s)
    PROVE  down' \in [Sockets -> Seq(Message)] /\ Mail
<1>1. CASE down' = down
  BY <1>1 DEF Mail, Silent, TypeOK
<1>2. ASSUME NEW m \in Message, m.t \in Ends, down' = Queue(s, <<m>>),
             sock[s].at \notin {"unused", "over"}, Goes(s)
      PROVE  down' \in [Sockets -> Seq(Message)] /\ Mail
  BY <1>2, QueueOne DEF Mail, Silent, Telling
<1> QED BY <1>1, <1>2

\* Who leaves, is taken over, or is new prints nothing to anybody.
LEMMA KeepsStep ==
    ASSUME \/ shell' = shell \/ Stopping
           \/ \E h \in Sockets : Parting(h) \/ Creating(h)
           \/ \E s \in Sockets, h \in Sockets : Taking(s, h), TypeOK,
           NEW g \in Sockets
    PROVE  Keeps(g)
<1>1. CASE shell' = shell
  BY <1>1 DEF Keeps
<1>2. CASE Stopping
  BY <1>2, BareShell DEF Stopping, Keeps, NoShell, EndedShell
<1>3. ASSUME NEW h \in Sockets, Parting(h) \/ Creating(h) PROVE Keeps(g)
  BY <1>3, BareShell DEF Parting, Creating, Others, Rested, Keeps, NewShell, EndedShell
<1>4. ASSUME NEW s \in Sockets, NEW h \in Sockets, Taking(s, h) PROVE Keeps(g)
  <2>1. shell'[h] = [shell[h] EXCEPT !.att = None, !.det = FALSE] /\ Others(h)
    BY <1>4 DEF Taking
  <2>2. CASE g = h
    <3>1. shell'[h].att = None
      BY <2>1, ShellFields DEF Shell
    <3> QED BY <2>2, <3>1 DEF Keeps
  <2>3. CASE g # h
    <3>1. shell'[g] = shell[g]
      BY <2>1, <2>3 DEF Others
    <3> QED BY <3>1 DEF Keeps
  <2> QED BY <2>2, <2>3, ZenonT(60)
<1> QED BY <1>1, <1>2, <1>3, <1>4

LEMMA HandlerMail ==
    ASSUME TypeOK, Attached, FirstSocket, NEW s \in Sockets,
           \/ Refuse(s) \/ Create(s) \/ AttachLate(s) \/ Deny(s) \/ Drop(s) \/ Close(s)
           \/ ByeArrives(s)
    PROVE  down' \in [Sockets -> Seq(Message)] /\ Mail
<1>1. win' = win
  BY DEF Refuse, Create, AttachLate, Deny, Drop, Close, ByeArrives
<1>2. \A g \in Sockets : Keeps(g)
  <2>1. CASE Refuse(s) \/ (Create(s) /\ ~sock[s].open) \/ (Close(s) /\ sock[s].at \notin Serving)
    BY <2>1, EarlySteps, KeepsStep DEF Aside
  <2>2. CASE Create(s) /\ sock[s].open
    BY <2>2, CreateSteps, KeepsStep
  <2>3. CASE AttachLate(s) \/ Deny(s) \/ Drop(s) \/ ByeArrives(s)
             \/ (Close(s) /\ sock[s].at \in Serving)
    BY <2>3, LeavingSteps, KeepsStep
  <2> QED BY <2>1, <2>2, <2>3
<1>3. \/ down' = down
      \/ /\ \E m \in Message : m.t \in Ends /\ down' = Queue(s, <<m>>)
         /\ sock[s].at \notin {"unused", "over"} /\ Goes(s)
  <2>1. CASE Refuse(s)
    BY <2>1, Notices, ReleasedSock DEF Refuse
  <2>2. CASE AttachLate(s)
    BY <2>2, Notices, ReleasedSock DEF AttachLate
  <2>3. CASE Deny(s)
    BY <2>3, Notices, ReleasedSock DEF Deny
  <2>4. CASE Create(s) \/ Drop(s) \/ Close(s) \/ ByeArrives(s)
    BY <2>4 DEF Create, Drop, Close, ByeArrives
  <2> QED BY <2>1, <2>2, <2>3, <2>4
<1> QED BY <1>1, <1>2, <1>3, Notified

LEMMA ClaimMail ==
    ASSUME TypeOK, Attached, FirstSocket, NEW s \in Sockets, Claim(s)
    PROVE  down' \in [Sockets -> Seq(Message)] /\ Mail
<1> DEFINE h == sock[s].resume
           old == shell[h].att
<1>1. win' = win /\ h \in Sockets /\ (Taking(s, h) \/ Parting(h))
  BY ClaimSteps, Zenon DEF Claim
<1>2. \A g \in Sockets : Keeps(g)
  BY <1>1, KeepsStep
<1>3. CASE old = None
  <2>1. down' = down
    BY <1>3 DEF Claim
  <2> QED BY <1>1, <1>2, <2>1, Notified
<1>4. CASE old # None
  <2>1. down' = Queue(old, <<Closed(FALSE)>>) /\ sock[s].at = "dialing"
    BY <1>4 DEF Claim
  <2>2. old \in Sockets /\ sock[old].at = "on" /\ sock[old].sh = h
    BY <1>1, <1>4, ShellFields DEF Attached
  <2>3. Goes(old)
    <3>1. old # s /\ sock'[old] = Released(old)[old]
      BY <1>4, <2>1, <2>2 DEF Claim, TypeOK, Released
    <3> QED BY <2>2, <3>1, ZenonT(60) DEF TypeOK, Sock, Released, Goes
  <2> QED BY <1>1, <1>2, <2>1, <2>2, <2>3, Notices, Notified
<1> QED BY <1>3, <1>4

LEMMA AttachMail ==
    ASSUME TypeOK, Attached, FirstSocket, HistoryKept, QueueShape, NEW s \in Sockets, Attach(s)
    PROVE  down' \in [Sockets -> Seq(Message)] /\ Mail
<1> DEFINE h == sock[s].sh
           cut == sock[s].offset < shell[h].start
<1>1. h \in Sockets /\ Attaching(s, h) /\ win' = win
  BY AttachSteps DEF Attach
<1>2. Others(h) /\ sock[s].at = "auth" /\ down[s] = <<>> /\ down \in [Sockets -> Seq(Message)]
  BY <1>1 DEF Attaching, QueueShape, TypeOK
<1>3. CASE h = s
  <2>1. shell'[h].st = "connecting" /\ down' = down
    BY <1>1, <1>3, ShellFields DEF Attach, Attaching, Shell
  <2> QED BY <1>1, <1>2, <2>1 DEF Others, Keeps, Mail, Silent
<1>4. CASE h # s
  <2>0. /\ sock[s].offset \in Nat /\ shell[h].start \in Nat /\ shell[h].end \in Nat
        /\ shell[h].end <= MaxOutput /\ shell[h].start <= shell[h].end /\ MaxOutput \in Nat
    BY <1>1, SockFields, ShellFields, Numbers DEF HistoryKept
  <2> DEFINE first == ReplayFrom(shell[h], sock[s].offset)
  <2>1. PICK from \in first .. shell[h].end :
            /\ cut \/ from = first
            /\ down' = Queue(s, <<Session(h, from, cut)>> \o
                         IF from < shell[h].end THEN <<Output(h, from, shell[h].end)>> ELSE <<>>)
    BY <1>4 DEF Attach, Truncated
  <2>2. /\ from \in 0 .. shell[h].end
        /\ cut => from > sock[s].offset
        /\ sock[s].offset >= shell[h].start /\ sock[s].offset <= shell[h].end
              => from = sock[s].offset
    BY <2>0, <2>1 DEF ReplayFrom
  <2>3. CASE ~Read(s)
    <3>1. shell'[h].att = s
      BY <1>1, <1>4, ShellFields DEF Attaching, Shell
    <3>2. down' = down
      BY <2>1, <2>3 DEF Queue
    <3>3. \A g \in Sockets : Keeps(g)
      BY <1>2, <2>3, <3>1 DEF Others, Keeps
    <3> QED BY <1>1, <1>2, <3>2, <3>3 DEF Mail, Silent
  <2>4. CASE Read(s)
    <3> DEFINE q == <<Session(h, from, cut)>> \o
                      (IF from < shell[h].end THEN <<Output(h, from, shell[h].end)>> ELSE <<>>)
    <3>1. Session(h, from, cut) \in Message /\ Output(h, from, shell[h].end) \in Message
      BY <1>1, <2>0, <2>2 DEF Session, Output, Message, ShellId, Offset
    <3>2. CASE from < shell[h].end
      <4>1. q = <<Session(h, from, cut)>> \o <<Output(h, from, shell[h].end)>>
        BY <3>2
      <4>2. q \in Seq(Message) /\ Len(q) = 2 /\ q[1] = Session(h, from, cut)
            /\ q[2] = Output(h, from, shell[h].end)
        <5> HIDE DEF q, h, cut
        <5> QED BY <3>1, <4>1
      <4>3. down' = [down EXCEPT ![s] = q]
        <5>1. down' = [down EXCEPT ![s] = <<>> \o q]
          BY <1>2, <2>1, <2>4 DEF Queue
        <5> QED BY <4>2, <5>1, ConcatEmptySeq
      <4> HIDE DEF q
      <4> QED BY <1>1, <1>2, <1>4, <2>2, <3>2, <4>2, <4>3 DEF Mail, Greeting, OtherMail
    <3>3. CASE ~(from < shell[h].end)
      <4>1. q = <<Session(h, from, cut)>> \o <<>>
        BY <3>3
      <4>2. q \in Seq(Message) /\ Len(q) = 1 /\ q[1] = Session(h, from, cut)
        <5> HIDE DEF q, h, cut
        <5> QED BY <3>1, <4>1
      <4>3. down' = [down EXCEPT ![s] = q]
        <5>1. down' = [down EXCEPT ![s] = <<>> \o q]
          BY <1>2, <2>1, <2>4 DEF Queue
        <5> QED BY <4>2, <5>1, ConcatEmptySeq
      <4> HIDE DEF q
      <4> QED BY <1>1, <1>2, <1>4, <2>2, <3>3, <4>2, <4>3 DEF Mail, Greeting, OtherMail
    <3> QED BY <3>2, <3>3
  <2> QED BY <2>3, <2>4
<1> QED BY <1>3, <1>4

LEMMA ShellMail ==
    ASSUME TypeOK, Attached, FirstSocket, NEW h \in Sockets,
           ShellOpens(h) \/ Prints(h) \/ Drain(h) \/ ShellEnds(h) \/ DetachTimeout(h)
    PROVE  down' \in [Sockets -> Seq(Message)] /\ Mail
<1>0. /\ shell \in [Sockets -> Shell] /\ shell[h] \in Shell /\ shell[h].att \in Sockets \cup {None}
      /\ shell[h].end \in 0 .. MaxOutput /\ MaxOutput \in Nat
      /\ down \in [Sockets -> Seq(Message)]
  BY ShellFields, Numbers DEF TypeOK
<1>1. win' = win
  BY DEF ShellOpens, Prints, Drain, ShellEnds, DetachTimeout
<1>2. CASE ShellOpens(h)
  <2>1. /\ shell[h].st = "connecting" /\ shell[h].att = h /\ sock' = sock
        /\ shell' = [shell EXCEPT ![h].st = "live"] /\ down' = Queue(h, <<Session(h, 0, FALSE)>>)
    BY <1>2 DEF ShellOpens, FirstSocket
  <2>2. /\ shell'[h].st = "live" /\ shell'[h].att = h /\ shell'[h].end = shell[h].end /\ Others(h)
    BY <1>0, <2>1 DEF Shell, Others
  <2>3. Session(h, 0, FALSE) \in Message
    BY <1>0 DEF Session, Message, ShellId, Offset
  <2>4. down' \in [Sockets -> Seq(Message)] /\ OtherMail(h)
        /\ (Read(h) => Sent(h, Session(h, 0, FALSE))) /\ (~Read(h) => down' = down)
    BY <2>1, <2>3, QueueOne
  <2>5. CASE Read(h)
    BY <1>1, <2>1, <2>2, <2>4, <2>5 DEF Mail, Opening
  <2>6. CASE ~Read(h)
    BY <1>1, <2>2, <2>4, <2>6 DEF Mail, Silent, Keeps, Others
  <2> QED BY <2>5, <2>6
<1>3. CASE Drain(h)
  <2>1. shell' = [shell EXCEPT ![h].paused = FALSE] /\ down' = down
    BY <1>3 DEF Drain
  <2>2. \A g \in Sockets : Keeps(g)
    BY <1>0, <2>1 DEF Keeps, Shell
  <2> QED BY <1>0, <1>1, <2>1, <2>2 DEF Mail, Silent
<1>4. CASE ShellEnds(h) \/ DetachTimeout(h)
  <2>1. shell' = [shell EXCEPT ![h] = EndedShell]
    BY <1>4 DEF ShellEnds, DetachTimeout
  <2>2. \A g \in Sockets : Keeps(g)
    BY <1>0, <2>1, BareShell DEF Keeps, EndedShell
  <2>3. CASE down' = down
    BY <1>0, <1>1, <2>2, <2>3 DEF Mail, Silent
  <2>4. CASE down' # down
    <3>1. shell[h].att \in Sockets /\ sock' = Released(shell[h].att)
          /\ \E forget \in BOOLEAN : down' = Queue(shell[h].att, <<Closed(forget)>>)
      BY <1>0, <1>4, <2>4 DEF ShellEnds, DetachTimeout
    <3>2. sock[shell[h].att].at = "on"
      BY <3>1, Numbers DEF Attached
    <3>3. Goes(shell[h].att)
      BY <3>1, ReleasedSock
    <3> QED BY <1>1, <2>2, <3>1, <3>2, <3>3, Notices, Notified
  <2> QED BY <2>3, <2>4
<1>5. CASE Prints(h)
  <2>0. shell[h].st = "live" /\ shell[h].end < MaxOutput
    BY <1>5 DEF Prints
  <2> DEFINE new == Recorded(shell[h])
  <2>1. new \in Shell /\ new.end = shell[h].end + 1 /\ new.st = "live" /\ new.att = shell[h].att
    BY <1>0, <2>0, RecordedShell
  <2>2. CASE shell[h].att = None
    <3>1. shell' = [shell EXCEPT ![h] = new] /\ down' = down
      BY <1>5, <2>2 DEF Prints
    <3> HIDE DEF new
    <3>2. \A g \in Sockets : Keeps(g)
      BY <1>0, <2>1, <2>2, <3>1 DEF Keeps
    <3> QED BY <1>0, <1>1, <3>1, <3>2 DEF Mail, Silent
  <2>3. CASE shell' = [shell EXCEPT ![h] = Detached(h, new)] /\ down' = down
    <3>1. Detached(h, new).att = None
      BY <2>1, ShellFields DEF Detached, Shell
    <3>2. \A g \in Sockets : Keeps(g)
      BY <1>0, <2>3, <3>1 DEF Keeps
    <3> QED BY <1>0, <1>1, <2>3, <3>2 DEF Mail, Silent
  <2>4. ASSUME shell[h].att # None, NEW paused \in BOOLEAN, sock' = sock,
               shell' = [shell EXCEPT ![h] = [new EXCEPT !.paused = paused]],
               down' = Queue(shell[h].att, <<Output(h, shell[h].end, shell[h].end + 1)>>)
        PROVE  down' \in [Sockets -> Seq(Message)] /\ Mail
    <3> DEFINE s == shell[h].att
               m == Output(h, shell[h].end, shell[h].end + 1)
    <3>1. s \in Sockets /\ m \in Message
      BY <1>0, <2>0, <2>4 DEF Output, Message, ShellId, Offset
    <3>2. down' \in [Sockets -> Seq(Message)] /\ OtherMail(s)
          /\ (Read(s) => Sent(s, m)) /\ (~Read(s) => down' = down)
      BY <2>4, <3>1, QueueOne
    <3> HIDE DEF new
    <3>3. /\ shell'[h].st = "live" /\ shell'[h].att = s /\ shell'[h].end = shell[h].end + 1
          /\ Others(h)
      BY <1>0, <2>1, <2>4 DEF Shell, Others
    <3> HIDE DEF m
    <3>4. CASE Read(s)
      BY <1>1, <2>0, <2>4, <3>1, <3>2, <3>3, <3>4 DEF Mail, Printing, m
    <3>5. CASE ~Read(s)
      <4>1. \A g \in Sockets : Keeps(g)
        BY <3>3, <3>5 DEF Keeps, Others
      <4> QED BY <1>1, <3>2, <3>5, <4>1 DEF Mail, Silent
    <3> QED BY <3>4, <3>5
  <2> QED BY <1>5, <2>2, <2>3, <2>4 DEF Prints
<1> QED BY <1>2, <1>3, <1>4, <1>5

-----------------------------------------------------------------------------
\* What the browser does.

LEMMA WinFields ==
    ASSUME TypeOK, NEW w \in Windows
    PROVE  /\ win[w] \in Win /\ win[w].cur \in Sockets \cup {None}
           /\ win[w].id \in Sockets \cup {None} /\ win[w].got \in 0 .. MaxOutput
  BY DEF TypeOK, Win, ShellId, Offset

\* A window that drops its socket reads no more of it.
LEMMA DroppedMail ==
    ASSUME TypeOK, NEW w \in Windows, down' = Dropped(w)
    PROVE  /\ down' \in [Sockets -> Seq(Message)]
           /\ \A s \in Sockets : down'[s] = IF s = win[w].cur THEN <<>> ELSE down[s]
  BY WinFields, Numbers DEF TypeOK, Dropped

\* A window other than w keeps everything, w itself what it has of its shell.
Browses(w) == /\ win' \in [Windows -> Win] /\ down' \in [Sockets -> Seq(Message)] /\ shell' = shell
              /\ \A v \in Windows \ {w} : win'[v] = win[v]

LEMMA DialStep ==
    ASSUME TypeOK, NEW w \in Windows, Dial(w)
    PROVE  /\ Browses(w) /\ down' = Dropped(w)
           /\ win'[w].id = win[w].id /\ win'[w].got = win[w].got /\ win'[w].cur \in Sockets
           /\ sock[win'[w].cur].at = "unused" /\ sock'[win'[w].cur].at = "dialing"
           /\ sock'[win'[w].cur].resume = win[w].id
           /\ win[w].id # None => sock'[win'[w].cur].offset = win[w].got
           /\ \A s \in Sockets : s # win'[w].cur => sock'[s] = sock[s]
<1>1. PICK s \in Sockets :
          /\ sock[s].at = "unused"
          /\ sock' = [sock EXCEPT ![s] = [at |-> "dialing", open |-> TRUE, sh |-> None,
                        resume |-> win[w].id, bye |-> FALSE,
                        offset |-> IF win[w].id = None THEN 0 ELSE win[w].got]]
          /\ win' = [win EXCEPT ![w].cur = s]
  BY FirstUnused DEF Dial
<1>2. down' = Dropped(w) /\ shell' = shell
  BY DEF Dial
<1>3. /\ win' \in [Windows -> Win] /\ win'[w].id = win[w].id /\ win'[w].got = win[w].got
      /\ win'[w].cur = s /\ \A v \in Windows \ {w} : win'[v] = win[v]
  BY <1>1 DEF TypeOK, Win, ShellId
<1>4. /\ sock'[s].at = "dialing" /\ sock'[s].resume = win[w].id
      /\ win[w].id # None => sock'[s].offset = win[w].got
      /\ \A r \in Sockets : r # s => sock'[r] = sock[r]
  BY <1>1 DEF TypeOK
<1> QED BY <1>1, <1>2, <1>3, <1>4, DroppedMail DEF Browses

LEMMA LeaveStep ==
    ASSUME TypeOK, NEW w \in Windows, NEW b \in BOOLEAN, Leaves(w, b) \/ Dispose(w, b)
    PROVE  /\ Browses(w) /\ down' = Dropped(w) /\ win'[w].cur = None
           /\ \/ win'[w].id = win[w].id /\ win'[w].got \in {0, win[w].got}
              \/ win'[w].id = None
           /\ \A s \in Sockets : Stays(s)
<1>1. down' = Dropped(w) /\ shell' = shell
  BY DEF Leaves, Dispose
<1>2. CASE Leaves(w, b)
  <2>1. sock' = sock /\ win' = [win EXCEPT ![w] = [win[w] EXCEPT !.cur = None,
                                                !.got = IF b THEN 0 ELSE win[w].got]]
    BY <1>2 DEF Leaves
  <2>2. /\ win' \in [Windows -> Win] /\ win'[w].id = win[w].id /\ win'[w].got \in {0, win[w].got}
        /\ win'[w].cur = None /\ \A v \in Windows \ {w} : win'[v] = win[v]
    <3>1. win[w] \in Win /\ win \in [Windows -> Win]
      BY DEF TypeOK
    <3>2. CASE b
      <4>1. win' = [win EXCEPT ![w] = [win[w] EXCEPT !.cur = None, !.got = 0]]
        BY <2>1, <3>2
      <4>2. 0 \in Offset /\ None \in ShellId
        BY Numbers DEF Offset, ShellId
      <4>3. [win[w] EXCEPT !.cur = None, !.got = 0] \in Win
        BY <3>1, <4>2 DEF Win
      <4> QED BY <3>1, <4>1, <4>3 DEF Win
    <3>3. CASE ~b
      BY <2>1, <3>1, <3>3, Numbers DEF Win, ShellId, Offset
    <3> QED BY <3>2, <3>3
  <2> QED BY <1>1, <2>1, <2>2, DroppedMail DEF Browses, Stays
<1>3. CASE Dispose(w, b)
  <2>1. win' = [win EXCEPT ![w] = [cur |-> None, id |-> None, got |-> 0, gone |-> TRUE]]
    BY <1>3 DEF Dispose
  <2>2. /\ win' \in [Windows -> Win] /\ win'[w].id = None /\ win'[w].cur = None
        /\ \A v \in Windows \ {w} : win'[v] = win[v]
    BY <2>1, Numbers DEF TypeOK, Win, ShellId, Offset
  <2>3. sock' = sock \/ (win[w].cur \in Sockets /\ sock' = [sock EXCEPT ![win[w].cur].bye = TRUE])
    BY <1>3, WinFields DEF Dispose
  <2>4. \A s \in Sockets : Stays(s)
    <3>1. CASE sock' = sock  BY <3>1 DEF Stays
    <3>2. CASE win[w].cur \in Sockets /\ sock' = [sock EXCEPT ![win[w].cur].bye = TRUE]
      BY <3>2, ByeStays
    <3> QED BY <2>3, <3>1, <3>2
  <2> QED BY <1>1, <2>2, <2>4, DroppedMail DEF Browses
<1> QED BY <1>2, <1>3

LEMMA ReceiveStep ==
    ASSUME TypeOK, ExactOutput, NEW w \in Windows, Receive(w)
    PROVE  LET s == win[w].cur
               m == down[s][1]
           IN  /\ Browses(w) /\ sock' = sock /\ s \in Sockets /\ win'[w].cur = s
               /\ OtherMail(s) /\ Len(down[s]) \in Nat \ {0}
               /\ Len(down'[s]) = Len(down[s]) - 1
               /\ \A i \in 1 .. Len(down[s]) - 1 : down'[s][i] = down[s][i + 1]
               /\ m.t = "session" => win'[w].id = m.sh /\ win'[w].got = m.to
               /\ m.t = "output" =>
                     win'[w].id = win[w].id /\ win'[w].got = m.to /\ m.from = win[w].got
               /\ m.t \in Ends => win'[w].id \in {None, win[w].id} /\ win'[w].got = win[w].got
<1> DEFINE s == win[w].cur
           m == down[s][1]
<1>1. s \in Sockets /\ down[s] # <<>> /\ down[s] \in Seq(Message)
  BY WinFields DEF Receive, TypeOK
<1>2. Len(down[s]) \in Nat \ {0} /\ Head(down[s]) = m /\ m \in Message
  BY <1>1, EmptySeq, ElementOfSeq
<1>3. /\ Tail(down[s]) \in Seq(Message) /\ Len(Tail(down[s])) = Len(down[s]) - 1
      /\ \A i \in 1 .. Len(down[s]) - 1 : Tail(down[s])[i] = down[s][i + 1]
  BY <1>1, HeadTailProperties
<1>4. down' = [down EXCEPT ![s] = Tail(down[s])] /\ shell' = shell /\ sock' = sock
  BY DEF Receive
<1>5. m.t = "output" => m.from = win[w].got
  BY <1>1, <1>2, Numbers DEF ExactOutput, Position
<1> DEFINE id == CASE m.t = "session" -> m.sh
                   [] m.t = "closed" /\ m.cut -> None
                   [] OTHER -> win[w].id
           got == CASE m.t = "session" -> m.to
                    [] m.t = "output" -> win[w].got + (m.to - m.from)
                    [] OTHER -> win[w].got
<1>6. win' = [win EXCEPT ![w] = [win[w] EXCEPT !.id = id, !.got = got]]
  <2>1. m = Head(down[win[w].cur])
    BY <1>2
  <2> HIDE DEF m
  <2> QED BY <2>1 DEF Receive
<1>7. /\ m.t \in {"session", "output", "closed", "error"} /\ m.sh \in ShellId
      /\ m.from \in 0 .. MaxOutput /\ m.to \in 0 .. MaxOutput
  BY <1>2, Zenon DEF Message, Offset
<1>8. /\ id \in ShellId /\ got \in 0 .. MaxOutput
      /\ m.t = "session" => id = m.sh /\ got = m.to
      /\ m.t = "output" => id = win[w].id /\ got = m.to
      /\ m.t \in Ends => id \in {None, win[w].id} /\ got = win[w].got
  <2>1. CASE m.t = "session"
    BY <1>7, <2>1 DEF Ends
  <2>2. CASE m.t = "output"
    <3>1. id = win[w].id /\ got = win[w].got + (m.to - m.from) /\ m.t \notin Ends
      BY <2>2 DEF Ends
    <3>2. win[w].id \in ShellId /\ win[w].got \in 0 .. MaxOutput
      BY WinFields DEF ShellId
    <3> HIDE DEF id, got, m
    <3> QED BY <1>5, <1>7, <2>2, <3>1, <3>2
  <2>3. CASE m.t \in Ends
    BY <1>7, <2>3, WinFields DEF Ends, ShellId
  <2> QED BY <1>7, <2>1, <2>2, <2>3, Zenon DEF Ends
<1> HIDE DEF id, got
<1>9. /\ win' \in [Windows -> Win] /\ win'[w].cur = s /\ win'[w].id = id /\ win'[w].got = got
      /\ \A v \in Windows \ {w} : win'[v] = win[v]
  BY <1>6, <1>8 DEF TypeOK, Win, Offset
<1>10. /\ down' \in [Sockets -> Seq(Message)] /\ OtherMail(s) /\ down'[s] = Tail(down[s])
  BY <1>1, <1>3, <1>4 DEF TypeOK, OtherMail
<1> QED BY <1>1, <1>2, <1>3, <1>4, <1>5, <1>8, <1>9, <1>10 DEF Browses

\* Every step has one of the shapes, and keeps the types of all.
LEMMA MailStep ==
    ASSUME TypeOK, Attached, FirstSocket, HistoryKept, QueueShape, ExactOutput, [Next]_vars
    PROVE  Mail /\ TypeOK'
<1>0. Typed
  BY ShapeStep
<1>1. ASSUME NEW s \in Sockets, Handle(s) \/ Authorize(s) \/ Revalidate(s) \/ Close(s)
                                \/ ByeArrives(s)
      PROVE  Mail /\ TypeOK'
  <2>1. down' \in [Sockets -> Seq(Message)] /\ Mail
    BY <1>1, HandlerMail, ClaimMail, AttachMail, Zenon DEF Handle, Authorize, Revalidate
  <2>2. win' = win
    BY <1>1, Zenon DEF Handle, Authorize, Revalidate, Refuse, Claim, Create, Attach, AttachLate, Deny,
                Drop, Close, ByeArrives
  <2> QED BY <1>0, <2>1, <2>2 DEF Typed, TypeOK
<1>2. ASSUME NEW h \in Sockets, \/ ShellOpens(h) \/ Prints(h) \/ Drain(h) \/ ShellEnds(h)
                                \/ DetachTimeout(h)
      PROVE  Mail /\ TypeOK'
  <2>1. win' = win
    BY <1>2 DEF ShellOpens, Prints, Drain, ShellEnds, DetachTimeout
  <2> QED BY <1>0, <1>2, <2>1, ShellMail DEF Typed, TypeOK
<1>3. CASE Restart
  <2>1. down' = down /\ win' = win
    BY <1>3 DEF Restart
  <2>2. \A g \in Sockets : Keeps(g)
    BY <1>3, RestartSteps, KeepsStep
  <2> QED BY <1>0, <2>1, <2>2 DEF Mail, Silent, Typed, TypeOK
<1>4. ASSUME NEW w \in Windows, NEW b \in BOOLEAN,
             Dial(w) \/ Receive(w) \/ Leaves(w, b) \/ Dispose(w, b)
      PROVE  Mail /\ TypeOK'
  <2>1. Browses(w)
    BY <1>4, DialStep, ReceiveStep, LeaveStep
  <2> QED BY <1>0, <1>4, <2>1 DEF Browses, Mail, Browsing, Typed, TypeOK
<1>5. CASE UNCHANGED vars
  BY <1>5 DEF vars, Mail, Silent, Keeps, TypeOK
<1> QED BY <1>1, <1>2, <1>3, <1>4, <1>5 DEF Next

-----------------------------------------------------------------------------
\* Windows and what is on the way to them.

LEMMA NoBrowsing == ASSUME Mail, ~Browsing PROVE win' = win
  BY DEF Mail, Silent, Telling, Opening, Printing, Greeting

LEMMA WindowKnowsStep ==
    ASSUME IInv, TypeOK', Shape, Mail PROVE WindowKnows'
<1> USE DEF IInv
<1> SUFFICES ASSUME NEW w \in Windows, win'[w].id # None
             PROVE  /\ shell'[win'[w].id].st \in Known
                    /\ shell'[win'[w].id].st = "live" => win'[w].got <= shell'[win'[w].id].end
  BY DEF WindowKnows
<1>0. \A h \in Sockets : Grows(h) /\ shell[h].end \in Int /\ shell'[h].end \in Int
  <2>1. \A h \in Sockets : shell[h] \in Shell /\ shell'[h] \in Shell
    BY DEF TypeOK
  <2>2. \A rec \in Shell : rec.end \in Int
    BY Numbers DEF Shell, Offset
  <2> QED BY <2>1, <2>2, GrowsStep
<1>a. win[w].got \in Nat /\ win[w].id \in Sockets \cup {None}
  BY WinFields
<1>1. ASSUME win'[w].id = win[w].id, win'[w].got \in {0, win[w].got}
      PROVE  /\ shell'[win'[w].id].st \in Known
             /\ shell'[win'[w].id].st = "live" => win'[w].got <= shell'[win'[w].id].end
  <2>1. win[w].id \in Sockets /\ shell[win[w].id].st \in Known
        /\ (shell[win[w].id].st = "live" => win[w].got <= shell[win[w].id].end)
    BY <1>1, <1>a DEF WindowKnows
  <2> QED BY <1>0, <1>1, <1>a, <2>1 DEF Grows
<1>2. CASE ~Browsing
  BY <1>1, <1>2, NoBrowsing
<1>3. ASSUME NEW v \in Windows, NEW b \in BOOLEAN, Dial(v) \/ Leaves(v, b) \/ Dispose(v, b)
      PROVE  win'[w].id = win[w].id /\ win'[w].got \in {0, win[w].got}
  <2>1. CASE v # w
    BY <1>3, <2>1, DialStep, LeaveStep DEF Browses
  <2>2. CASE v = w
    BY <1>3, <2>2, DialStep, LeaveStep
  <2> QED BY <2>1, <2>2
<1>4. ASSUME NEW v \in Windows, Receive(v), v # w PROVE win'[w] = win[w]
  BY <1>4, ReceiveStep DEF Browses
<1>5. CASE Receive(w)
  <2> DEFINE s == win[w].cur
             m == down[s][1]
  <2>1. /\ s \in Sockets /\ Len(down[s]) \in Nat \ {0} /\ shell' = shell
        /\ m.t = "session" => win'[w].id = m.sh /\ win'[w].got = m.to
        /\ m.t = "output" => win'[w].id = win[w].id /\ win'[w].got = m.to
        /\ m.t \in Ends => win'[w].id \in {None, win[w].id} /\ win'[w].got = win[w].got
    BY <1>5, ReceiveStep DEF Browses
  <2>2. m.t \in {"session", "output"} \cup Ends
    <3>1. down[s] \in Seq(Message) /\ 1 \in 1 .. Len(down[s])
      BY <2>1 DEF TypeOK
    <3>2. m \in Message
      BY <3>1, ElementOfSeq
    <3> QED BY <3>2 DEF Message, Ends
  <2>3. m.t \notin Ends => m.sh = sock[s].sh /\ shell[m.sh].st \in Known
                           /\ (shell[m.sh].st = "live" => m.to <= shell[m.sh].end)
    BY <2>1 DEF QueueShape
  <2>4. m.t = "output" => win[w].id = sock[s].sh
    BY <2>1, Numbers DEF Greeted
  <2>5. CASE m.t \in Ends
    BY <1>1, <2>1, <2>5
  <2>6. CASE m.t \notin Ends
    BY <2>1, <2>2, <2>3, <2>4, <2>6 DEF Ends
  <2> QED BY <2>5, <2>6
<1> QED BY <1>1, <1>2, <1>3, <1>4, <1>5 DEF Browsing

LEMMA OneReaderStep ==
    ASSUME IInv, TypeOK', Shape, Mail PROVE OneReader'
<1> USE DEF IInv
<1>0. \A s \in Sockets : SockKeeps(s)
  BY SockKeepsStep
<1>a. \A w \in Windows : win[w].cur \in Sockets \cup {None} /\ win'[w].cur \in Sockets \cup {None}
  BY WinFields DEF TypeOK, Win, ShellId
<1>b. /\ \A w \in Windows : win[w].cur # None => sock[win[w].cur].at # "unused"
      /\ \A v, w \in Windows : win[v].cur # None /\ win[v].cur = win[w].cur => v = w
      /\ \A w \in Windows : win[w].cur # None /\ sock[win[w].cur].at \in {"dialing", "auth"} =>
            /\ sock[win[w].cur].resume = win[w].id
            /\ win[w].id # None => sock[win[w].cur].offset = win[w].got
  BY DEF OneReader
<1> DEFINE O == /\ \A w \in Windows : win'[w].cur # None => sock'[win'[w].cur].at # "unused"
                /\ \A v, w \in Windows : win'[v].cur # None /\ win'[v].cur = win'[w].cur => v = w
                /\ \A w \in Windows :
                      win'[w].cur # None /\ sock'[win'[w].cur].at \in {"dialing", "auth"} =>
                         /\ sock'[win'[w].cur].resume = win'[w].id
                         /\ win'[w].id # None => sock'[win'[w].cur].offset = win'[w].got
<1>1. ASSUME ~Browsing PROVE O
  <2>1. win' = win
    BY <1>1, NoBrowsing
  <2> QED BY <1>0, <1>a, <1>b, <2>1 DEF SockKeeps
<1>2. ASSUME NEW w \in Windows, Dial(w) PROVE O
  <2>1. /\ \A v \in Windows \ {w} : win'[v] = win[v]
        /\ win'[w].id = win[w].id /\ win'[w].got = win[w].got /\ win'[w].cur \in Sockets
        /\ sock[win'[w].cur].at = "unused" /\ sock'[win'[w].cur].at = "dialing"
        /\ sock'[win'[w].cur].resume = win[w].id
        /\ win[w].id # None => sock'[win'[w].cur].offset = win[w].got
        /\ \A s \in Sockets : s # win'[w].cur => sock'[s] = sock[s]
    BY <1>2, DialStep DEF Browses
  <2> QED BY <1>a, <1>b, <2>1
<1>3. ASSUME NEW w \in Windows, NEW b \in BOOLEAN, Leaves(w, b) \/ Dispose(w, b) PROVE O
  <2>1. /\ \A v \in Windows \ {w} : win'[v] = win[v]
        /\ win'[w].cur = None /\ \A s \in Sockets : Stays(s)
    BY <1>3, LeaveStep DEF Browses
  <2> QED BY <1>a, <1>b, <2>1 DEF Stays
<1>4. ASSUME NEW w \in Windows, Receive(w) PROVE O
  <2>1. /\ \A v \in Windows \ {w} : win'[v] = win[v]
        /\ win'[w].cur = win[w].cur /\ sock' = sock
        /\ win[w].cur \in Sockets /\ Len(down[win[w].cur]) \in Nat \ {0}
    BY <1>4, ReceiveStep DEF Browses
  <2>2. down[win[w].cur] # <<>>
    BY <2>1, EmptySeq
  <2>3. sock[win[w].cur].at \notin {"dialing", "auth"}
    BY <2>1, <2>2 DEF QueueShape
  <2> QED BY <1>a, <1>b, <2>1, <2>3
<1> QED BY <1>1, <1>2, <1>3, <1>4 DEF Browsing, OneReader

\* A message to the window of s that is not a notice is about the shell of s.
About(s, m) ==
    m.t \notin Ends => /\ m.sh = sock[s].sh /\ sock[s].sh # None
                       /\ shell[sock[s].sh].st \in Known
                       /\ shell[sock[s].sh].st = "live" => m.to <= shell[sock[s].sh].end

LEMMA AboutStep ==
    ASSUME TypeOK, TypeOK', FirstSocket, Shape, NEW s \in Sockets, NEW CONSTANT m \in Message,
           sock[s].at \notin {"unused", "dialing", "auth"}, About(s, m)
    PROVE  About(s, m)'
<1>1. sock'[s].sh = sock[s].sh /\ sock[s].sh \in Sockets \cup {None}
  BY SockKeepsStep, SockFields DEF SockKeeps
<1>2. \A h \in Sockets : Grows(h) /\ shell[h].end \in Int /\ shell'[h].end \in Int
  <2>1. \A h \in Sockets : Grows(h)
    BY GrowsStep
  <2>2. \A h \in Sockets : shell[h].end \in Int /\ shell'[h].end \in Int
    BY Numbers DEF TypeOK, Shell, Offset
  <2> QED BY <2>1, <2>2
<1>3. m.to \in Int
  BY Numbers DEF Message, Offset
<1> QED BY <1>1, <1>2, <1>3 DEF About, Grows

\* A shell is being opened only where nothing has been sent.
LEMMA ConnectStep ==
    ASSUME TypeOK, FirstSocket, Shape, NEW h \in Sockets, shell'[h].st = "connecting"
    PROVE  shell[h].st = "connecting" \/ sock[h].at = "auth"
<1>1. CASE Aside
  BY <1>1 DEF Aside
<1>2. CASE Stopping
  BY <1>2, ShellFields DEF Stopping
<1>3. ASSUME NEW g \in Sockets, Parting(g) \/ Running(g) \/ Creating(g)
      PROVE  shell[h].st = "connecting" \/ sock[h].at = "auth"
  BY <1>3, ShellFields DEF Parting, Rested, Running, Creating, Others
<1>4. ASSUME NEW s \in Sockets, NEW g \in Sockets, Taking(s, g)
      PROVE  shell[h].st = "connecting" \/ sock[h].at = "auth"
  <2>1. shell'[g].st = shell[g].st /\ Others(g)
    BY <1>4, ShellFields DEF Taking, Shell
  <2> QED BY <2>1 DEF Others
<1>5. ASSUME NEW s \in Sockets, NEW g \in Sockets, Attaching(s, g)
      PROVE  shell[h].st = "connecting" \/ sock[h].at = "auth"
  <2>1. /\ Others(g) /\ sock[s].at = "auth"
        /\ shell'[g] = IF g = s THEN [shell[g] EXCEPT !.att = s, !.st = "connecting"]
                                ELSE [shell[g] EXCEPT !.att = s, !.paused = FALSE]
    BY <1>5 DEF Attaching
  <2>2. g # s => shell'[g].st = shell[g].st
    BY <2>1, ShellFields DEF Shell
  <2> QED BY <2>1, <2>2 DEF Others
<1> QED BY <1>1, <1>2, <1>3, <1>4, <1>5 DEF Shape

\* The queues of other sockets than the ones a step is about are kept or dropped.
LEMMA EmptyStep ==
    ASSUME IInv, TypeOK', Shape, Mail, Attached', FirstSocket', NEW s \in Sockets,
           sock'[s].at \in {"unused", "dialing", "auth"} \/ shell'[s].st = "connecting"
    PROVE  down'[s] = <<>>
<1> USE DEF IInv
<1>1. down[s] = <<>>
  BY SockKeepsStep, ConnectStep DEF SockKeeps, QueueShape
<1>2. /\ shell'[s].st = "connecting" => shell'[s].att = s
      /\ \A h \in Sockets : shell'[h].att # None =>
            sock'[shell'[h].att].at = "on" /\ sock'[shell'[h].att].sh = h
  BY DEF Attached, FirstSocket
<1>3. /\ shell[s].st = "connecting" => shell[s].att = s
      /\ \A h \in Sockets : shell[h].att # None =>
            sock[shell[h].att].at = "on" /\ sock[shell[h].att].sh = h
  BY DEF Attached, FirstSocket
<1>4. None # s
  BY Numbers
<1>5. CASE Silent
  BY <1>1, <1>5 DEF Silent
<1>6. ASSUME NEW r \in Sockets, Telling(r) PROVE down'[s] = <<>>
  BY <1>1, <1>2, <1>4, <1>6 DEF Telling, OtherMail, Goes
<1>7. ASSUME NEW r \in Sockets, Opening(r) PROVE down'[s] = <<>>
  BY <1>1, <1>3, <1>4, <1>7 DEF Opening, OtherMail
<1>8. ASSUME NEW r \in Sockets, Printing(r) PROVE down'[s] = <<>>
  BY <1>1, <1>2, <1>3, <1>4, <1>8 DEF Printing, OtherMail
<1>9. ASSUME NEW r \in Sockets, NEW h \in Sockets, Greeting(r, h) PROVE down'[s] = <<>>
  BY <1>1, <1>2, <1>4, <1>9 DEF Greeting, Attaching, OtherMail
<1>10. ASSUME NEW w \in Windows, NEW b \in BOOLEAN, Dial(w) \/ Leaves(w, b) \/ Dispose(w, b)
       PROVE  down'[s] = <<>>
  BY <1>1, <1>10, DialStep, LeaveStep, DroppedMail
<1>11. ASSUME NEW w \in Windows, Receive(w) PROVE down'[s] = <<>>
  <2>1. OtherMail(win[w].cur) /\ Len(down[win[w].cur]) # 0
    BY <1>11, ReceiveStep
  <2> QED BY <1>1, <2>1, EmptySeq DEF OtherMail
<1> QED BY <1>5, <1>6, <1>7, <1>8, <1>9, <1>10, <1>11 DEF Mail, Browsing

LEMMA QueueShapeStep ==
    ASSUME IInv, TypeOK', Shape, Mail, Attached', FirstSocket'
    PROVE  QueueShape'
<1> USE DEF IInv
<1> DEFINE In(s, i) == /\ down'[s][i].t = "session" => i = 1
                       /\ down'[s][i].t \in Ends => i = Len(down'[s]) /\ sock'[s].at = "over"
                       /\ About(s, down[s][i])'
<1> SUFFICES ASSUME NEW s \in Sockets, NEW i \in 1 .. Len(down'[s]) PROVE In(s, i)
  BY EmptyStep DEF QueueShape, About
<1>1. /\ down[s] \in Seq(Message) /\ Len(down[s]) \in Nat /\ down'[s] \in Seq(Message)
      /\ Len(down'[s]) \in Nat /\ i \in Nat
  BY DEF TypeOK
<1>2. \A j \in 1 .. Len(down[s]) :
          /\ down[s][j] \in Message
          /\ sock[s].at \notin {"unused", "dialing", "auth"}
          /\ down[s][j].t = "session" => j = 1
          /\ down[s][j].t \in Ends => j = Len(down[s]) /\ sock[s].at = "over"
          /\ About(s, down[s][j])
  BY <1>1, ElementOfSeq, EmptySeq DEF QueueShape, About
<1>3. ASSUME NEW j \in 1 .. Len(down[s]), down'[s][i] = down[s][j] PROVE About(s, down[s][i])'
  <2>1. PICK m \in Message : m = down[s][j]
    BY <1>2
  <2>2. About(s, m)'
    BY <1>2, <2>1, AboutStep
  <2> QED BY <1>3, <2>1, <2>2 DEF About
<1>4. sock[s].at = "over" => sock'[s].at = "over"
  BY SockKeepsStep DEF SockKeeps
<1>5. ASSUME down'[s] = down[s] PROVE In(s, i)
  BY <1>1, <1>2, <1>3, <1>4, <1>5
<1>6. ASSUME down'[s] = <<>> PROVE In(s, i)
  BY <1>1, <1>6
<1>7. ASSUME NEW m, Sent(s, m), sock[s].at # "over", i <= Len(down[s]) PROVE In(s, i)
  <2>1. down'[s][i] = down[s][i] /\ i \in 1 .. Len(down[s])
    BY <1>1, <1>7 DEF Sent
  <2> QED BY <1>2, <1>3, <1>7, <2>1
<1>8. ASSUME NEW m, Sent(s, m), ~(i <= Len(down[s]))
      PROVE  i = Len(down'[s]) /\ i = Len(down[s]) + 1 /\ down'[s][i] = m
  BY <1>1, <1>8 DEF Sent
<1>9. CASE Silent
  BY <1>5, <1>9 DEF Silent
<1>10. ASSUME NEW r \in Sockets, Telling(r) PROVE In(s, i)
  <2>1. CASE r # s
    BY <1>5, <1>10, <2>1 DEF Telling, OtherMail
  <2>2. CASE r = s
    <3>1. PICK m : m.t \in Ends /\ Sent(s, m)
      BY <1>10, <2>2 DEF Telling
    <3>2. sock[s].at # "over" /\ sock'[s].at = "over"
      BY <1>10, <2>2 DEF Telling, Goes
    <3> QED BY <1>7, <1>8, <3>1, <3>2 DEF Ends, About
  <2> QED BY <2>1, <2>2
<1>11. ASSUME NEW r \in Sockets, Opening(r) PROVE In(s, i)
  <2>1. CASE r # s
    BY <1>5, <1>11, <2>1 DEF Opening, OtherMail
  <2>2. CASE r = s
    <3>1. Sent(s, Session(s, 0, FALSE)) /\ shell[s].st = "connecting" /\ shell'[s].st = "live"
          /\ sock' = sock
      BY <1>11, <2>2 DEF Opening
    <3>2. down[s] = <<>> /\ sock[s].sh = s
      BY <3>1, Numbers DEF QueueShape, FirstSocket, Attached
    <3>3. i = 1 /\ down'[s][1] = Session(s, 0, FALSE)
      <4>1. Len(down[s]) = 0
        BY <3>2, EmptySeq
      <4>a. /\ Len(down'[s]) = Len(down[s]) + 1
            /\ down'[s][Len(down[s]) + 1] = Session(s, 0, FALSE)
        BY <3>1 DEF Sent
      <4>b. Len(down[s]) + 1 = 1
        BY <4>1
      <4>2. Len(down'[s]) = 1 /\ down'[s][1] = Session(s, 0, FALSE)
        BY <4>a, <4>b
      <4> QED BY <1>1, <4>2
    <3>4. shell'[s].end >= 0
      BY Numbers DEF TypeOK, Shell, Offset
    <3> QED BY <3>1, <3>2, <3>3, <3>4, Numbers DEF Session, Ends, About, Known
  <2> QED BY <2>1, <2>2
<1>12. ASSUME NEW h \in Sockets, Printing(h) PROVE In(s, i)
  <2>1. CASE shell[h].att # s
    BY <1>5, <1>12, <2>1 DEF Printing, OtherMail
  <2>2. CASE shell[h].att = s
    <3> DEFINE m == Output(h, shell[h].end, shell[h].end + 1)
    <3>1. Sent(s, m) /\ shell'[h].st = "live" /\ sock' = sock
          /\ shell'[h].end = shell[h].end + 1
      BY <1>12, <2>2 DEF Printing
    <3>2. sock[s].at = "on" /\ sock[s].sh = h
      BY <2>2, Numbers DEF Attached
    <3>3. CASE i <= Len(down[s])
      BY <1>7, <3>1, <3>2, <3>3
    <3>4. CASE ~(i <= Len(down[s]))
      <4>1. down'[s][i] = m /\ m.t = "output" /\ m.sh = h /\ m.to = shell[h].end + 1
        BY <1>8, <3>1, <3>4 DEF Output
      <4>2. shell[h].end + 1 \in Int
        BY ShellFields
      <4> HIDE DEF m
      <4> QED BY <3>1, <3>2, <4>1, <4>2, Numbers DEF Ends, About, Known
    <3> QED BY <3>3, <3>4
  <2> QED BY <2>1, <2>2
<1>13. ASSUME NEW r \in Sockets, NEW h \in Sockets, Greeting(r, h) PROVE In(s, i)
  <2>1. CASE r # s
    BY <1>5, <1>13, <2>1 DEF Greeting, OtherMail
  <2>2. CASE r = s
    <3>1. PICK from \in 0 .. shell[h].end :
            /\ Len(down'[s]) = IF from < shell[h].end THEN 2 ELSE 1
            /\ down'[s][1] = Session(h, from, sock[s].offset < shell[h].start)
            /\ from < shell[h].end => down'[s][2] = Output(h, from, shell[h].end)
      BY <1>13, <2>2 DEF Greeting
    <3>2. /\ sock[s].at = "auth" /\ sock'[s].sh = h /\ h # s /\ sock[s].sh = h
          /\ shell'[h] = [shell[h] EXCEPT !.att = s, !.paused = FALSE]
      BY <1>13, <2>2 DEF Greeting, Attaching
    <3>3. shell'[h].st = shell[h].st /\ shell'[h].end = shell[h].end /\ shell[h].end \in Nat
      BY <3>2, ShellFields, Numbers DEF Shell
    <3>4. shell[h].st \in Known
      BY <3>2 DEF FirstSocket, Serving
    <3>5. down'[s][i].t \in {"session", "output"} /\ (down'[s][i].t = "session" => i = 1)
          /\ down'[s][i].sh = h /\ down'[s][i].to <= shell[h].end
      <4>1. CASE i = 1
        BY <3>1, <3>3, <4>1 DEF Session
      <4>2. CASE i # 1
        <5>1. i = 2 /\ from < shell[h].end
          BY <1>1, <3>1, <4>2
        <5> QED BY <3>1, <3>3, <5>1 DEF Output
      <4> QED BY <4>1, <4>2
    <3> QED BY <3>2, <3>3, <3>4, <3>5, Numbers DEF Ends, About
  <2> QED BY <2>1, <2>2
<1>14. ASSUME NEW w \in Windows, NEW b \in BOOLEAN, Dial(w) \/ Leaves(w, b) \/ Dispose(w, b)
       PROVE  In(s, i)
  BY <1>5, <1>6, <1>14, DialStep, LeaveStep, DroppedMail
<1>15. ASSUME NEW w \in Windows, Receive(w) PROVE In(s, i)
  <2>1. CASE s # win[w].cur
    BY <1>5, <1>15, <2>1, ReceiveStep DEF OtherMail
  <2>2. CASE s = win[w].cur
    <3>1. /\ Len(down'[s]) = Len(down[s]) - 1 /\ sock' = sock
          /\ \A j \in 1 .. Len(down[s]) - 1 : down'[s][j] = down[s][j + 1]
      BY <1>15, <2>2, ReceiveStep
    <3>2. i + 1 \in 1 .. Len(down[s]) /\ down'[s][i] = down[s][i + 1]
      BY <1>1, <3>1
    <3> QED BY <1>1, <1>2, <1>3, <3>1, <3>2
  <2> QED BY <2>1, <2>2
<1> HIDE DEF In
<1> QED BY <1>9, <1>10, <1>11, <1>12, <1>13, <1>14, <1>15 DEF Mail, Browsing

\* A shell begins to run only when it was being opened, by the socket that has it.
LEMMA LiveStep ==
    ASSUME TypeOK, FirstSocket, Shape, NEW h \in Sockets, shell'[h].st = "live"
    PROVE  shell[h].st = "live" \/ (shell[h].st = "connecting" /\ shell'[h].att = h)
<1> DEFINE G == shell[h].st = "live" \/ (shell[h].st = "connecting" /\ shell'[h].att = h)
<1>1. CASE Aside
  BY <1>1 DEF Aside
<1>2. CASE Stopping
  BY <1>2, ShellFields DEF Stopping
<1>3. ASSUME NEW g \in Sockets, Parting(g) \/ Running(g) \/ Creating(g) PROVE G
  BY <1>3, ShellFields DEF Parting, Rested, Running, Creating, Others, FirstSocket
<1>4. ASSUME NEW s \in Sockets, NEW g \in Sockets, Taking(s, g) PROVE G
  <2>1. shell'[g].st = shell[g].st /\ Others(g)
    BY <1>4, ShellFields DEF Taking, Shell
  <2> QED BY <2>1 DEF Others
<1>5. ASSUME NEW s \in Sockets, NEW g \in Sockets, Attaching(s, g) PROVE G
  <2>1. /\ Others(g) /\ sock[s].at = "auth"
        /\ shell'[g] = IF g = s THEN [shell[g] EXCEPT !.att = s, !.st = "connecting"]
                                ELSE [shell[g] EXCEPT !.att = s, !.paused = FALSE]
    BY <1>5 DEF Attaching
  <2>2. g # s => shell'[g].st = shell[g].st
    BY <2>1, ShellFields DEF Shell
  <2>3. g = s => shell'[g].st = "connecting"
    BY <2>1, ShellFields DEF Shell
  <2> QED BY <2>1, <2>2, <2>3 DEF Others
<1> HIDE DEF G
<1>6. G
  BY <1>1, <1>2, <1>3, <1>4, <1>5 DEF Shape, G
<1> QED BY <1>6 DEF G

\* The first message on the way, once there is one, is the first until it is read.
First(s, t) == Len(down[s]) > 0 /\ down[s][1].t = t

LEMMA FirstStays ==
    ASSUME TypeOK, TypeOK', NEW s \in Sockets, NEW m, Sent(s, m), NEW CONSTANT t
    PROVE  /\ Len(down[s]) > 0 => (First(s, t)' <=> First(s, t))
           /\ ~(Len(down[s]) > 0) => (First(s, t)' <=> m.t = t)
<1>1. /\ Len(down[s]) \in Nat /\ Len(down'[s]) = Len(down[s]) + 1
      /\ down'[s][Len(down[s]) + 1] = m
      /\ \A i \in 1 .. Len(down[s]) : down'[s][i] = down[s][i]
  BY DEF Sent, TypeOK
<1>2. CASE Len(down[s]) > 0
  <2>1. down'[s][1] = down[s][1] /\ Len(down'[s]) > 0
    BY <1>1, <1>2
  <2> QED BY <1>2, <2>1 DEF First
<1>3. CASE ~(Len(down[s]) > 0)
  <2>1. Len(down[s]) + 1 = 1
    BY <1>1, <1>3
  <2>2. down'[s][1] = m /\ Len(down'[s]) > 0
    BY <1>1, <2>1
  <2> QED BY <1>3, <2>2 DEF First
<1> QED BY <1>2, <1>3

\* The window w, which reads s, has been greeted.
Met(w, s) == /\ First(s, "output") => win[w].id = sock[s].sh
             /\ sock[s].at = "on" /\ shell[sock[s].sh].st = "live"
                   => win[w].id = sock[s].sh \/ First(s, "session")

\* The gateway sends something, or nothing, to the window w.
LEMMA MetByGateway ==
    ASSUME IInv, TypeOK', Shape, Mail, ~Browsing, NEW w \in Windows, NEW s \in Sockets,
           win[w].cur = s
    PROVE  Met(w, s)'
<1> USE DEF IInv
<1>0. /\ win' = win /\ Read(s) /\ Met(w, s) /\ None \notin Sockets /\ s # None
      /\ Len(down[s]) \in Nat
  <2>1. win' = win /\ None \notin Sockets /\ s # None
    BY NoBrowsing, Numbers
  <2>2. Read(s) /\ Len(down[s]) \in Nat
    BY DEF Read, TypeOK
  <2>3. Met(w, s)
    BY <2>1 DEF Greeted, Met, First
  <2> QED BY <2>1, <2>2, <2>3
<1>1. /\ sock'[s].at = "on" => sock[s].at = "on" \/ Attaching(s, sock[s].sh)
      /\ sock[s].at \notin {"unused", "dialing"} => sock'[s].sh = sock[s].sh
  BY SockKeepsStep DEF SockKeeps
<1>2. Len(down[s]) > 0 => sock[s].at \notin {"unused", "dialing", "auth"}
  BY EmptySeq DEF QueueShape
<1>3. \A h \in Sockets : shell[h].att # None =>
          sock[shell[h].att].at = "on" /\ sock[shell[h].att].sh = h
  BY DEF Attached
<1>4. sock[s].at \in Serving => sock[s].sh \in Sockets
  BY DEF Attached
<1>5. sock[s].at = "on" /\ sock[s].sh # s => shell[sock[s].sh].st \in Known
  BY DEF FirstSocket, Serving
<1>6. ASSUME \A h \in Sockets : Keeps(h), sock'[s].at = "on", shell'[sock'[s].sh].st = "live"
      PROVE  sock[s].at = "on" /\ shell[sock[s].sh].st = "live" /\ sock'[s].sh = sock[s].sh
  <2>1. CASE sock[s].at = "on"
    <3>1. sock'[s].sh = sock[s].sh /\ sock[s].sh \in Sockets
      BY <1>1, <1>4, <2>1 DEF Serving
    <3>2. shell[sock[s].sh].st # "live" => sock[s].sh = s /\ shell'[s].att = s
      BY <1>5, <1>6, <2>1, <3>1, LiveStep DEF Known
    <3> QED BY <1>0, <1>6, <2>1, <3>1, <3>2 DEF Keeps
  <2>2. CASE Attaching(s, sock[s].sh) /\ sock[s].at = "auth"
    <3> DEFINE h == sock[s].sh
    <3>1. h \in Sockets /\ sock'[s].sh = h
      BY <1>1, <1>4, <2>2 DEF Serving
    <3>2. shell'[h] = IF h = s THEN [shell[h] EXCEPT !.att = s, !.st = "connecting"]
                               ELSE [shell[h] EXCEPT !.att = s, !.paused = FALSE]
      BY <2>2 DEF Attaching
    <3>3. h # s /\ shell'[h].att = s
      BY <1>6, <3>1, <3>2, ShellFields DEF Shell
    <3>4. shell[h].att = s
      BY <1>0, <1>6, <3>1, <3>3 DEF Keeps
    <3> QED BY <1>0, <1>3, <2>2, <3>1, <3>4
  <2> QED BY <1>1, <1>6, <2>1, <2>2 DEF Attaching
<1>7. ASSUME \A h \in Sockets : Keeps(h), down'[s] = down[s] PROVE Met(w, s)'
  BY <1>0, <1>1, <1>2, <1>6, <1>7 DEF Met, First
<1>8. CASE Silent
  BY <1>7, <1>8 DEF Silent
<1>9. ASSUME NEW r \in Sockets, Telling(r) PROVE Met(w, s)'
  <2>1. CASE r # s
    BY <1>7, <1>9, <2>1 DEF Telling, OtherMail
  <2>2. CASE r = s
    <3>1. PICK m : m.t \in Ends /\ Sent(s, m)
      BY <1>9, <2>2 DEF Telling
    <3>2. sock'[s].at = "over"
      BY <1>9, <2>2 DEF Telling, Goes
    <3>3. First(s, "output")' => First(s, "output") /\ Len(down[s]) > 0
      BY <3>1, FirstStays DEF Ends
    <3> QED BY <1>0, <1>1, <1>2, <3>2, <3>3 DEF Met
  <2> QED BY <2>1, <2>2
<1>10. ASSUME NEW h \in Sockets, Opening(h) PROVE Met(w, s)'
  <2>0. sock' = sock /\ Others(h) /\ shell[h].st = "connecting"
    BY <1>10 DEF Opening
  <2>1. CASE h # s
    <3>1. down'[s] = down[s]
      BY <1>10, <2>1 DEF Opening, OtherMail
    <3>2. sock[s].at = "on" => sock[s].sh # h
      BY <1>5, <2>0, <2>1 DEF Known
    <3>3. sock[s].at = "on" => shell'[sock[s].sh] = shell[sock[s].sh]
      BY <1>4, <2>0, <3>2 DEF Others, Serving
    <3> QED BY <1>0, <2>0, <3>1, <3>3 DEF Met, First
  <2>2. CASE h = s
    <3>1. Sent(s, Session(s, 0, FALSE)) /\ Session(s, 0, FALSE).t = "session"
      BY <1>10, <2>2 DEF Opening, Session
    <3>2. ~(Len(down[s]) > 0)
      BY <2>0, <2>2, EmptySeq DEF QueueShape
    <3>3. First(s, "session")' /\ ~First(s, "output")'
      BY <3>1, <3>2, FirstStays
    <3> QED BY <3>3 DEF Met
  <2> QED BY <2>1, <2>2
<1>11. ASSUME NEW h \in Sockets, Printing(h) PROVE Met(w, s)'
  <2>0. /\ sock' = sock /\ shell[h].st = "live" /\ shell'[h].st = "live" /\ Others(h)
        /\ shell[h].att \in Sockets
    BY <1>11 DEF Printing
  <2>1. sock[s].at = "on" /\ shell'[sock[s].sh].st = "live" => shell[sock[s].sh].st = "live"
    BY <1>4, <2>0 DEF Others, Serving
  <2>2. CASE shell[h].att # s
    <3>1. down'[s] = down[s]
      BY <1>0, <1>11, <2>2 DEF Printing, OtherMail
    <3> QED BY <1>0, <2>0, <2>1, <3>1 DEF Met, First
  <2>3. CASE shell[h].att = s
    <3> DEFINE m == Output(h, shell[h].end, shell[h].end + 1)
    <3>1. Sent(s, m) /\ m.t = "output"
      BY <1>11, <2>3 DEF Printing, Output
    <3>2. sock[s].at = "on" /\ sock[s].sh = h
      BY <1>0, <1>3, <2>3
    <3> HIDE DEF m
    <3>3. CASE Len(down[s]) > 0
      <4>1. /\ First(s, "output")' <=> First(s, "output")
            /\ First(s, "session")' <=> First(s, "session")
        BY <3>1, <3>3, FirstStays
      <4> QED BY <1>0, <2>0, <3>2, <4>1 DEF Met
    <3>4. CASE ~(Len(down[s]) > 0)
      BY <1>0, <2>0, <3>2, <3>4 DEF Met, First
    <3> QED BY <3>3, <3>4
  <2> QED BY <2>2, <2>3
<1>12. ASSUME NEW r \in Sockets, NEW h \in Sockets, Greeting(r, h) PROVE Met(w, s)'
  <2>1. CASE r # s
    <3>1. down'[s] = down[s] /\ Stays(s) /\ Others(h)
          /\ shell'[h] = [shell[h] EXCEPT !.att = r, !.paused = FALSE]
      BY <1>12, <2>1 DEF Greeting, OtherMail, Attaching
    <3>2. shell'[h].st = shell[h].st
      BY <3>1, ShellFields DEF Shell
    <3>3. sock[s].at = "on" => shell'[sock[s].sh].st = shell[sock[s].sh].st
      BY <1>4, <3>1, <3>2 DEF Others, Serving
    <3> QED BY <1>0, <3>1, <3>3 DEF Met, First, Stays
  <2>2. CASE r = s
    <3>1. PICK from \in 0 .. shell[h].end :
            /\ Len(down'[s]) = IF from < shell[h].end THEN 2 ELSE 1
            /\ down'[s][1] = Session(h, from, sock[s].offset < shell[h].start)
      BY <1>12, <2>2 DEF Greeting
    <3>2. First(s, "session")' /\ ~First(s, "output")'
      BY <3>1 DEF First, Session
    <3> QED BY <3>2 DEF Met
  <2> QED BY <2>1, <2>2
<1> QED BY <1>8, <1>9, <1>10, <1>11, <1>12 DEF Mail

LEMMA GreetedStep ==
    ASSUME IInv, TypeOK', Shape, Mail PROVE Greeted'
<1> USE DEF IInv
<1>0. \A v \in Windows : win[v].cur # None => Met(v, win[v].cur) /\ win[v].cur \in Sockets
  BY WinFields DEF Greeted, Met, First
<1> SUFFICES ASSUME NEW w \in Windows, NEW s \in Sockets, win'[w].cur = s PROVE Met(w, s)'
  <2>1. \A w \in Windows : win'[w].cur # None => win'[w].cur \in Sockets
    BY DEF TypeOK, Win, ShellId
  <2> QED BY <2>1 DEF Greeted, Met, First
<1>1. s # None /\ None \notin Sockets
  BY Numbers
<1>2. CASE ~Browsing
  BY <1>2, MetByGateway, NoBrowsing
<1>3. ASSUME shell' = shell, Stays(s), win[w].cur = s, win'[w] = win[w], down'[s] = down[s]
      PROVE  Met(w, s)'
  BY <1>0, <1>1, <1>3 DEF Stays, Met, First
<1>4. ASSUME NEW v \in Windows, v # w, win[w].cur = s PROVE win[v].cur # s
  BY <1>1, <1>4 DEF OneReader
<1>5. ASSUME NEW v \in Windows, Dial(v) PROVE Met(w, s)'
  <2>1. /\ shell' = shell /\ down' = Dropped(v) /\ sock[win'[v].cur].at = "unused"
        /\ sock'[win'[v].cur].at = "dialing" /\ win'[v].cur \in Sockets
        /\ \A r \in Sockets : r # win'[v].cur => sock'[r] = sock[r]
        /\ \A u \in Windows \ {v} : win'[u] = win[u]
    BY <1>5, DialStep DEF Browses
  <2>2. CASE v = w
    <3>1. down'[s] = <<>>
      BY <2>1, <2>2, DroppedMail DEF QueueShape
    <3> QED BY <2>1, <2>2, <3>1, EmptySeq DEF Met, First
  <2>3. CASE v # w
    <3>1. win'[w] = win[w] /\ win[w].cur = s /\ win[v].cur # s
      BY <1>4, <2>1, <2>3
    <3>2. win'[v].cur # s
      BY <1>1, <2>1, <3>1 DEF OneReader
    <3>3. down'[s] = down[s] /\ Stays(s)
      BY <2>1, <3>1, <3>2, DroppedMail DEF Stays
    <3> QED BY <1>3, <2>1, <3>1, <3>3
  <2> QED BY <2>2, <2>3
<1>6. ASSUME NEW v \in Windows, NEW b \in BOOLEAN, Leaves(v, b) \/ Dispose(v, b) PROVE Met(w, s)'
  <2>1. /\ shell' = shell /\ down' = Dropped(v) /\ win'[v].cur = None /\ Stays(s)
        /\ \A u \in Windows \ {v} : win'[u] = win[u]
    BY <1>6, LeaveStep DEF Browses
  <2>2. v # w /\ win'[w] = win[w] /\ win[w].cur = s
    BY <1>1, <2>1
  <2>3. win[v].cur # s
    BY <1>4, <2>2
  <2>4. down'[s] = down[s]
    BY <2>1, <2>3, DroppedMail
  <2> QED BY <1>3, <2>1, <2>2, <2>4
<1>7. ASSUME NEW v \in Windows, Receive(v), v # w PROVE Met(w, s)'
  <2>1. shell' = shell /\ sock' = sock /\ win'[w] = win[w] /\ OtherMail(win[v].cur)
    BY <1>7, ReceiveStep DEF Browses
  <2>2. win[v].cur # s
    BY <1>4, <1>7, <2>1
  <2> QED BY <1>3, <2>1, <2>2 DEF Stays, OtherMail
<1>8. CASE Receive(w)
  <2> DEFINE m == down[s][1]
  <2>1. win[w].cur = s
    BY <1>8, ReceiveStep
  <2>2. /\ shell' = shell /\ sock' = sock /\ Len(down[s]) \in Nat \ {0}
        /\ Len(down'[s]) = Len(down[s]) - 1
        /\ m.t = "session" => win'[w].id = m.sh
        /\ m.t = "output" => win'[w].id = win[w].id
    BY <1>8, <2>1, ReceiveStep DEF Browses
  <2>3. m.t \in {"session", "output"} \cup Ends
    <3>1. down[s] \in Seq(Message) /\ 1 \in 1 .. Len(down[s])
      BY <2>2 DEF TypeOK
    <3>2. m \in Message
      BY <3>1, ElementOfSeq
    <3> QED BY <3>2 DEF Message, Ends
  <2>4. /\ m.t \notin Ends => m.sh = sock[s].sh
        /\ m.t \in Ends => 1 = Len(down[s]) /\ sock[s].at = "over"
    <3>1. 1 \in 1 .. Len(down[s])
      BY <2>2
    <3> HIDE DEF m
    <3>2. \A i \in 1 .. Len(down[s]) :
              /\ down[s][i].t \notin Ends => down[s][i].sh = sock[s].sh
              /\ down[s][i].t \in Ends => i = Len(down[s]) /\ sock[s].at = "over"
      BY DEF QueueShape
    <3> QED BY <3>1, <3>2 DEF m
  <2>5. m.t = "output" => win[w].id = sock[s].sh
    BY <1>0, <1>1, <2>1, <2>2 DEF Met, First
  <2>6. CASE m.t \in Ends
    <3>1. Len(down'[s]) = 0 /\ sock'[s].at = "over"
      BY <2>2, <2>4, <2>6
    <3> QED BY <3>1 DEF Met, First
  <2>7. CASE m.t \notin Ends
    <3>1. win'[w].id = sock[s].sh
      BY <2>2, <2>3, <2>4, <2>5, <2>7
    <3> QED BY <2>2, <3>1 DEF Met
  <2> QED BY <2>6, <2>7
<1> QED BY <1>2, <1>5, <1>6, <1>7, <1>8 DEF Browsing

-----------------------------------------------------------------------------
\* The output a window shows.

\* What the window w of the socket s has after n of the messages on the way.
At(w, s, n) == IF n = 0 THEN win[w].got ELSE down[s][n].to
Fits(w, s, i) ==
    /\ down[s][i].t = "output" => down[s][i].from = At(w, s, i - 1)
    /\ down[s][i].t = "session" /\ down[s][i].sh = win[w].id
          => \/ down[s][i].to = At(w, s, i - 1)
             \/ down[s][i].cut /\ down[s][i].to > At(w, s, i - 1)
UpToDate(w, s, h) ==
    shell[h].st = "live" /\ shell[h].att = s => At(w, s, Len(down[s])) = shell[h].end
Exact(w, s) == /\ \A i \in 1 .. Len(down[s]) : Fits(w, s, i)
               /\ \A h \in Sockets : UpToDate(w, s, h)

LEMMA ExactWindows == ExactOutput <=> \A w \in Windows : win[w].cur # None => Exact(w, win[w].cur)
  BY DEF ExactOutput, Position, Exact, Fits, UpToDate, At

\* Nothing is sent to the window, and the shell it is attached to prints nothing.
LEMMA ExactSame ==
    ASSUME TypeOK, NEW w \in Windows, NEW s \in Sockets, Exact(w, s),
           win'[w] = win[w], down'[s] = down[s],
           \A h \in Sockets : shell'[h].st = "live" /\ shell'[h].att = s =>
              shell[h].st = "live" /\ shell[h].att = s /\ shell'[h].end = shell[h].end
    PROVE  Exact(w, s)'
  BY DEF Exact, Fits, UpToDate, At

\* One message is sent: it has to go on where the others end, and to say where the
\* shell is.
LEMMA ExactSent ==
    ASSUME TypeOK, NEW w \in Windows, NEW s \in Sockets, Exact(w, s), win'[w] = win[w],
           NEW m, Sent(s, m),
           /\ m.t = "output" => m.from = At(w, s, Len(down[s]))
           /\ m.t = "session" => m.sh # win[w].id,
           \A h \in Sockets : shell'[h].st = "live" /\ shell'[h].att = s => m.to = shell'[h].end
    PROVE  Exact(w, s)'
<1>1. /\ Len(down[s]) \in Nat /\ Len(down'[s]) = Len(down[s]) + 1
      /\ down'[s][Len(down[s]) + 1] = m
      /\ \A i \in 1 .. Len(down[s]) : down'[s][i] = down[s][i]
  BY DEF Sent, TypeOK
<1>2. ASSUME NEW n \in 0 .. Len(down[s]) PROVE At(w, s, n)' = At(w, s, n)
  BY <1>1, <1>2 DEF At
<1>3. ASSUME NEW i \in 1 .. Len(down[s]) PROVE Fits(w, s, i)'
  <2>1. i - 1 \in 0 .. Len(down[s]) /\ down'[s][i] = down[s][i] /\ Fits(w, s, i)
    BY <1>1, <1>3 DEF Exact
  <2>2. At(w, s, i - 1)' = At(w, s, i - 1)
    BY <1>2, <2>1
  <2> QED BY <2>1, <2>2 DEF Fits
<1>4. ASSUME NEW i \in 1 .. Len(down'[s]), i \notin 1 .. Len(down[s]) PROVE Fits(w, s, i)'
  <2>1. down'[s][i] = m /\ i - 1 = Len(down[s]) /\ i - 1 \in 0 .. Len(down[s])
    BY <1>1, <1>4
  <2>2. At(w, s, i - 1)' = At(w, s, i - 1)
    BY <1>2, <2>1
  <2>3. At(w, s, i - 1) = At(w, s, Len(down[s]))
    BY <2>1
  <2> QED BY <2>1, <2>2, <2>3 DEF Fits
<1>5. ASSUME NEW i \in 1 .. Len(down'[s]) PROVE Fits(w, s, i)'
  BY <1>3, <1>4
<1>6. ASSUME NEW h \in Sockets PROVE UpToDate(w, s, h)'
  <2>1. down'[s][Len(down'[s])] = m /\ Len(down'[s]) # 0
    BY <1>1
  <2> QED BY <2>1 DEF UpToDate, At
<1> QED BY <1>5, <1>6 DEF Exact

\* The window continues a shell: it is greeted with the byte it has, or with a later
\* one and a mark that some are missing.
LEMMA ExactGreeting ==
    ASSUME IInv, Attached', TypeOK', NEW w \in Windows, NEW s \in Sockets, win[w].cur = s,
           NEW h \in Sockets, Greeting(s, h)
    PROVE  Exact(w, s)'
<1> USE DEF IInv
<1>1. PICK from \in 0 .. shell[h].end :
          /\ Len(down'[s]) = IF from < shell[h].end THEN 2 ELSE 1
          /\ down'[s][1] = Session(h, from, sock[s].offset < shell[h].start)
          /\ from < shell[h].end => down'[s][2] = Output(h, from, shell[h].end)
          /\ sock[s].offset < shell[h].start => from > sock[s].offset
          /\ sock[s].offset >= shell[h].start /\ sock[s].offset <= shell[h].end
                => from = sock[s].offset
  BY DEF Greeting
<1>2. /\ win' = win /\ sock[s].at = "auth" /\ sock[s].sh = h /\ h # s /\ shell[h].st # "ended"
      /\ shell'[h] = [shell[h] EXCEPT !.att = s, !.paused = FALSE] /\ sock'[s].sh = h
  BY DEF Greeting, Attaching
<1>3. /\ shell[h].end \in Nat /\ shell[h].start \in Nat /\ shell'[h].end = shell[h].end
      /\ sock[s].offset \in Nat /\ from \in Nat
  BY <1>2, ShellFields, SockFields, Numbers DEF Shell
<1>4. s # None /\ h # None
  BY Numbers
<1>5. shell[h].st = "live" /\ sock[s].resume = h
  BY <1>2 DEF FirstSocket, Serving, Known
<1>6. win[w].id = h /\ win[w].got = sock[s].offset
  BY <1>2, <1>4, <1>5 DEF OneReader
<1>7. win[w].got <= shell[h].end
  BY <1>4, <1>5, <1>6 DEF WindowKnows
<1>8. from = win'[w].got \/ (sock[s].offset < shell[h].start /\ from > win'[w].got)
  BY <1>1, <1>2, <1>3, <1>6, <1>7
<1>9. Fits(w, s, 1)'
  <2>1. /\ down'[s][1].t = "session" /\ down'[s][1].to = from
        /\ down'[s][1].cut = (sock[s].offset < shell[h].start)
    BY <1>1 DEF Session
  <2>2. 1 - 1 = 0 /\ At(w, s, 0)' = win'[w].got
    BY DEF At
  <2>3. CASE from = win'[w].got
    BY <2>1, <2>2, <2>3 DEF Fits
  <2>4. CASE sock[s].offset < shell[h].start /\ from > win'[w].got
    <3>1. down'[s][1].cut
      BY <2>1, <2>4, Zenon
    <3> QED BY <2>1, <2>2, <2>4, <3>1 DEF Fits
  <2> QED BY <1>8, <2>3, <2>4
<1>10. ASSUME from < shell[h].end PROVE Fits(w, s, 2)'
  <2>1. down'[s][1].to = from
    BY <1>1 DEF Session
  <2>2. down'[s][2].t = "output" /\ down'[s][2].from = from
    BY <1>1, <1>10 DEF Output
  <2> QED BY <2>1, <2>2 DEF Fits, At
<1>11. ASSUME NEW i \in 1 .. Len(down'[s]) PROVE Fits(w, s, i)'
  <2>1. i = 1 \/ (i = 2 /\ from < shell[h].end)
    BY <1>1, <1>11
  <2> QED BY <1>9, <1>10, <2>1
<1>12. ASSUME NEW g \in Sockets PROVE UpToDate(w, s, g)'
  <2>1. shell'[g].att = s => g = h
    BY <1>2, <1>4 DEF Attached
  <2>2. Len(down'[s]) # 0 /\ down'[s][Len(down'[s])].to = shell[h].end
    <3>1. CASE from < shell[h].end
      <4>1. Len(down'[s]) = 2 /\ down'[s][2].to = shell[h].end
        BY <1>1, <3>1 DEF Output
      <4> QED BY <4>1
    <3>2. CASE ~(from < shell[h].end)
      <4>1. Len(down'[s]) = 1 /\ down'[s][1].to = shell[h].end
        BY <1>1, <1>3, <3>2 DEF Session
      <4> QED BY <4>1
    <3> QED BY <3>1, <3>2
  <2> QED BY <1>3, <2>1, <2>2 DEF UpToDate, At
<1> QED BY <1>11, <1>12 DEF Exact

\* The gateway sends something, or nothing, to the window w.
LEMMA ExactByGateway ==
    ASSUME IInv, Attached', TypeOK', Mail, ~Browsing, NEW w \in Windows, NEW s \in Sockets,
           win[w].cur = s
    PROVE  Exact(w, s)'
<1> USE DEF IInv
<1>0. /\ win' = win /\ Read(s) /\ None \notin Sockets /\ s # None
  BY NoBrowsing, Numbers DEF Read
<1>1. Exact(w, s)
  BY <1>0, ExactWindows
<1>2. \A h \in Sockets : shell[h].att # None =>
          sock[shell[h].att].at = "on" /\ sock[shell[h].att].sh = h
  BY DEF Attached
<1>3. \A h \in Sockets : shell'[h].att # None =>
          sock'[shell'[h].att].at = "on" /\ sock'[shell'[h].att].sh = h
  BY DEF Attached
<1>4. ASSUME \A h \in Sockets : Keeps(h), down'[s] = down[s] PROVE Exact(w, s)'
  <2>1. \A h \in Sockets : shell'[h].st = "live" /\ shell'[h].att = s =>
            shell[h].st = "live" /\ shell[h].att = s /\ shell'[h].end = shell[h].end
    BY <1>0, <1>4 DEF Keeps
  <2> QED BY <1>0, <1>1, <1>4, <2>1, ExactSame
<1>5. CASE Silent
  BY <1>4, <1>5 DEF Silent
<1>6. ASSUME NEW r \in Sockets, Telling(r) PROVE Exact(w, s)'
  <2>1. CASE r # s
    BY <1>4, <1>6, <2>1 DEF Telling, OtherMail
  <2>2. CASE r = s
    <3>1. PICK m : m.t \in Ends /\ Sent(s, m)
      BY <1>6, <2>2 DEF Telling
    <3>2. sock'[s].at = "over"
      BY <1>6, <2>2 DEF Telling, Goes
    <3>3. \A h \in Sockets : shell'[h].att # s
      BY <1>0, <1>3, <3>2
    <3>4. m.t \notin {"output", "session"}
      BY <3>1 DEF Ends
    <3> QED BY <1>0, <1>1, <3>1, <3>3, <3>4, ExactSent
  <2> QED BY <2>1, <2>2
<1>7. ASSUME NEW h \in Sockets, Opening(h) PROVE Exact(w, s)'
  <2>0. /\ sock' = sock /\ Others(h) /\ shell[h].st = "connecting" /\ shell'[h].att = shell[h].att
        /\ shell'[h].end = shell[h].end
    BY <1>7 DEF Opening
  <2>1. shell[h].att = h /\ shell[h].end = 0
    BY <2>0 DEF FirstSocket
  <2>2. CASE h # s
    <3>1. down'[s] = down[s]
      BY <1>7, <2>2 DEF Opening, OtherMail
    <3>2. \A g \in Sockets : shell'[g].st = "live" /\ shell'[g].att = s =>
            shell[g].st = "live" /\ shell[g].att = s /\ shell'[g].end = shell[g].end
      BY <2>0, <2>1, <2>2 DEF Others
    <3> QED BY <1>0, <1>1, <3>1, <3>2, ExactSame
  <2>3. CASE h = s
    <3> DEFINE m == Session(h, 0, FALSE)
    <3>1. Sent(s, m) /\ m.t = "session" /\ m.sh = h /\ m.to = 0
      BY <1>7, <2>3 DEF Opening, Session
    <3>2. win[w].id # h
      BY <1>0, <2>0, <2>3 DEF WindowKnows, Known
    <3>3. \A g \in Sockets : shell'[g].att = s => g = h
      BY <1>0, <1>2, <1>3, <2>0, <2>1, <2>3
    <3> HIDE DEF m
    <3>4. \A g \in Sockets : shell'[g].st = "live" /\ shell'[g].att = s => m.to = shell'[g].end
      BY <2>0, <2>1, <3>1, <3>3
    <3> QED BY <1>0, <1>1, <3>1, <3>2, <3>4, ExactSent
  <2> QED BY <2>2, <2>3
<1>8. ASSUME NEW h \in Sockets, Printing(h) PROVE Exact(w, s)'
  <2>0. /\ sock' = sock /\ Others(h) /\ shell[h].st = "live" /\ shell'[h].att = shell[h].att
        /\ shell'[h].end = shell[h].end + 1 /\ shell[h].att \in Sockets
    BY <1>8 DEF Printing
  <2>1. CASE shell[h].att # s
    <3>1. down'[s] = down[s]
      BY <1>8, <2>1 DEF Printing, OtherMail
    <3>2. \A g \in Sockets : shell'[g].st = "live" /\ shell'[g].att = s =>
            shell[g].st = "live" /\ shell[g].att = s /\ shell'[g].end = shell[g].end
      BY <2>0, <2>1 DEF Others
    <3> QED BY <1>0, <1>1, <3>1, <3>2, ExactSame
  <2>2. CASE shell[h].att = s
    <3> DEFINE m == Output(h, shell[h].end, shell[h].end + 1)
    <3>1. Sent(s, m) /\ m.t = "output" /\ m.from = shell[h].end /\ m.to = shell[h].end + 1
      BY <1>8, <2>2 DEF Printing, Output
    <3>2. At(w, s, Len(down[s])) = shell[h].end
      BY <1>1, <2>0, <2>2 DEF Exact, UpToDate
    <3>3. \A g \in Sockets : shell'[g].att = s => g = h
      BY <1>0, <1>2, <1>3, <2>0, <2>2
    <3> HIDE DEF m
    <3>4. \A g \in Sockets : shell'[g].st = "live" /\ shell'[g].att = s => m.to = shell'[g].end
      BY <2>0, <3>1, <3>3
    <3> QED BY <1>0, <1>1, <3>1, <3>2, <3>4, ExactSent
  <2> QED BY <2>1, <2>2
<1>9. ASSUME NEW r \in Sockets, NEW h \in Sockets, Greeting(r, h) PROVE Exact(w, s)'
  <2>1. CASE r = s
    BY <1>9, <2>1, ExactGreeting
  <2>2. CASE r # s
    <3>1. /\ down'[s] = down[s] /\ Others(h)
          /\ shell'[h] = [shell[h] EXCEPT !.att = r, !.paused = FALSE]
      BY <1>9, <2>2 DEF Greeting, OtherMail, Attaching
    <3>2. shell'[h].att = r
      BY <3>1, ShellFields DEF Shell
    <3>3. \A g \in Sockets : shell'[g].st = "live" /\ shell'[g].att = s =>
            shell[g].st = "live" /\ shell[g].att = s /\ shell'[g].end = shell[g].end
      BY <2>2, <3>1, <3>2 DEF Others
    <3> QED BY <1>0, <1>1, <3>1, <3>3, ExactSame
  <2> QED BY <2>1, <2>2
<1> QED BY <1>5, <1>6, <1>7, <1>8, <1>9 DEF Mail

\* The window reads the first message on the way.
LEMMA ExactReceive ==
    ASSUME IInv, TypeOK', NEW w \in Windows, NEW s \in Sockets, win[w].cur = s, Receive(w)
    PROVE  Exact(w, s)'
<1> USE DEF IInv
<1> DEFINE m == down[s][1]
<1>0. s # None /\ Exact(w, s)
  BY Numbers, ExactWindows
<1>1. /\ shell' = shell /\ sock' = sock /\ Len(down[s]) \in Nat \ {0}
      /\ Len(down'[s]) = Len(down[s]) - 1
      /\ \A i \in 1 .. Len(down[s]) - 1 : down'[s][i] = down[s][i + 1]
      /\ m.t \in {"session", "output"} => win'[w].got = m.to
  BY ReceiveStep DEF Browses
<1>2. m.t \in {"session", "output"} \cup Ends
  <2>1. down[s] \in Seq(Message) /\ 1 \in 1 .. Len(down[s])
    BY <1>1 DEF TypeOK
  <2>2. m \in Message
    BY <2>1, ElementOfSeq
  <2> QED BY <2>2 DEF Message, Ends
<1>3. \A i \in 1 .. Len(down[s]) :
          /\ down[s][i].t = "session" => i = 1
          /\ down[s][i].t \in Ends => i = Len(down[s]) /\ sock[s].at = "over"
  BY DEF QueueShape
<1>4. CASE m.t \in Ends
  <2>1. 1 = Len(down[s]) /\ sock[s].at = "over"
    <3>1. 1 \in 1 .. Len(down[s]) /\ down[s][1].t \in Ends
      BY <1>1, <1>4
    <3> QED BY <1>3, <3>1
  <2>2. \A h \in Sockets : shell'[h].att # s
    BY <1>0, <1>1, <2>1 DEF Attached
  <2>3. Len(down'[s]) = 0
    BY <1>1, <2>1
  <2> QED BY <2>2, <2>3 DEF Exact, UpToDate
<1>5. CASE m.t \in {"session", "output"}
  <2>1. ASSUME NEW n \in 0 .. Len(down'[s]) PROVE At(w, s, n)' = At(w, s, n + 1)
    <3>1. CASE n = 0
      <4>1. At(w, s, n)' = win'[w].got /\ At(w, s, 1) = m.to /\ n + 1 = 1
        BY <3>1 DEF At
      <4> QED BY <1>1, <1>5, <4>1
    <3>2. CASE n # 0
      <4>1. n \in 1 .. Len(down[s]) - 1 /\ n + 1 # 0
        BY <1>1, <2>1, <3>2
      <4> QED BY <1>1, <3>2, <4>1 DEF At
    <3> QED BY <3>1, <3>2
  <2>2. ASSUME NEW i \in 1 .. Len(down'[s]) PROVE Fits(w, s, i)'
    <3>1. /\ i + 1 \in 1 .. Len(down[s]) /\ i + 1 # 1 /\ down'[s][i] = down[s][i + 1]
          /\ i - 1 \in 0 .. Len(down'[s]) /\ (i + 1) - 1 = (i - 1) + 1
      <4>1. i \in 1 .. Len(down[s]) - 1 /\ Len(down[s]) \in Nat
            /\ Len(down'[s]) = Len(down[s]) - 1
        BY <1>1, <2>2
      <4>2. down'[s][i] = down[s][i + 1]
        BY <1>1, <4>1
      <4>3. /\ i + 1 \in 1 .. Len(down[s]) /\ i + 1 # 1
            /\ i - 1 \in 0 .. Len(down'[s]) /\ (i + 1) - 1 = (i - 1) + 1
        BY <4>1
      <4> QED BY <4>2, <4>3
    <3>2. Fits(w, s, i + 1) /\ down[s][i + 1].t # "session"
      BY <1>0, <1>3, <3>1 DEF Exact
    <3>3. At(w, s, i - 1)' = At(w, s, (i - 1) + 1)
      BY <2>1, <3>1
    <3> QED BY <3>1, <3>2, <3>3 DEF Fits
  <2>3. ASSUME NEW h \in Sockets PROVE UpToDate(w, s, h)'
    <3>1. PICK n \in 0 .. Len(down'[s]) : n = Len(down'[s])
      BY <1>1
    <3>2. n + 1 = Len(down[s]) /\ At(w, s, n)' = At(w, s, n + 1)
      BY <1>1, <2>1, <3>1
    <3>3. UpToDate(w, s, h)
      BY <1>0 DEF Exact
    <3>4. shell'[h].st = "live" /\ shell'[h].att = s => At(w, s, n)' = shell'[h].end
      BY <1>1, <3>2, <3>3 DEF UpToDate
    <3> QED BY <3>1, <3>4 DEF UpToDate, At
  <2> QED BY <2>2, <2>3 DEF Exact
<1> QED BY <1>2, <1>4, <1>5

LEMMA ExactStep ==
    ASSUME IInv, Attached', TypeOK', Mail PROVE ExactOutput'
<1> USE DEF IInv
<1>0. \A v \in Windows : win[v].cur # None => Exact(v, win[v].cur)
  BY ExactWindows
<1> SUFFICES ASSUME NEW w \in Windows, NEW s \in Sockets, win'[w].cur = s PROVE Exact(w, s)'
  <2>1. \A w \in Windows : win'[w].cur # None => win'[w].cur \in Sockets
    BY DEF TypeOK, Win, ShellId
  <2> QED BY <2>1 DEF ExactOutput, Position, Exact, Fits, UpToDate, At
<1>1. s # None
  BY Numbers
<1>2. CASE ~Browsing
  BY <1>2, ExactByGateway, NoBrowsing
<1>3. ASSUME shell' = shell, win[w].cur = s, win'[w] = win[w], down'[s] = down[s]
      PROVE  Exact(w, s)'
  BY <1>0, <1>1, <1>3, ExactSame
<1>4. ASSUME NEW v \in Windows, v # w, win[w].cur = s PROVE win[v].cur # s
  BY <1>1, <1>4 DEF OneReader
<1>5. ASSUME NEW v \in Windows, Dial(v) PROVE Exact(w, s)'
  <2>1. /\ shell' = shell /\ down' = Dropped(v) /\ sock[win'[v].cur].at = "unused"
        /\ \A u \in Windows \ {v} : win'[u] = win[u]
    BY <1>5, DialStep DEF Browses
  <2>2. CASE v = w
    <3>1. down'[s] = <<>>
      BY <2>1, <2>2, DroppedMail DEF QueueShape
    <3>2. \A h \in Sockets : shell'[h].att # s
      BY <1>1, <2>1, <2>2 DEF Attached
    <3> QED BY <3>1, <3>2, EmptySeq DEF Exact, UpToDate
  <2>3. CASE v # w
    <3>1. win'[w] = win[w] /\ win[w].cur = s /\ win[v].cur # s
      BY <1>4, <2>1, <2>3
    <3>2. down'[s] = down[s]
      BY <2>1, <3>1, DroppedMail
    <3> QED BY <1>3, <2>1, <3>1, <3>2
  <2> QED BY <2>2, <2>3
<1>6. ASSUME NEW v \in Windows, NEW b \in BOOLEAN, Leaves(v, b) \/ Dispose(v, b) PROVE Exact(w, s)'
  <2>1. /\ shell' = shell /\ down' = Dropped(v) /\ win'[v].cur = None
        /\ \A u \in Windows \ {v} : win'[u] = win[u]
    BY <1>6, LeaveStep DEF Browses
  <2>2. v # w /\ win'[w] = win[w] /\ win[w].cur = s
    BY <1>1, <2>1
  <2>3. win[v].cur # s
    BY <1>4, <2>2
  <2>4. down'[s] = down[s]
    BY <2>1, <2>3, DroppedMail
  <2> QED BY <1>3, <2>1, <2>2, <2>4
<1>7. ASSUME NEW v \in Windows, Receive(v), v # w PROVE Exact(w, s)'
  <2>1. shell' = shell /\ win'[w] = win[w] /\ OtherMail(win[v].cur)
    BY <1>7, ReceiveStep DEF Browses
  <2>2. win[v].cur # s
    BY <1>4, <1>7, <2>1
  <2> QED BY <1>3, <2>1, <2>2 DEF OtherMail
<1>8. CASE Receive(w)
  <2>1. win[w].cur = s
    BY <1>8, ReceiveStep
  <2> QED BY <1>8, <2>1, ExactReceive
<1> QED BY <1>2, <1>5, <1>6, <1>7, <1>8 DEF Browsing

-----------------------------------------------------------------------------
LEMMA Start == Init => IInv
<1> SUFFICES ASSUME Init PROVE IInv
  OBVIOUS
<1>0. /\ shell \in [Sockets -> Shell] /\ \A h \in Sockets : shell[h] = Bare("none")
  BY Numbers DEF Init, NoShell, Bare, Shell, ShellId, Offset
<1>1. /\ sock \in [Sockets -> Sock] /\ win \in [Windows -> Win]
      /\ \A s \in Sockets : /\ sock[s].at = "unused" /\ sock[s].sh = None
                            /\ sock[s].resume = None
      /\ \A w \in Windows : win[w].cur = None /\ win[w].id = None
  BY Numbers DEF Init, Sock, Win, ShellId, Offset
<1>2. down \in [Sockets -> Seq(Message)] /\ \A s \in Sockets : down[s] = <<>> /\ Len(down[s]) = 0
  BY DEF Init
<1>3. \A h \in Sockets : /\ shell[h].st = "none" /\ shell[h].att = None /\ shell[h].start = 0
                         /\ shell[h].end = 0 /\ ~shell[h].paused /\ ~shell[h].det
  BY <1>0, BareShell
<1>4. TypeOK /\ Attached /\ FirstSocket /\ HistoryKept
  BY <1>0, <1>1, <1>2, <1>3 DEF TypeOK, Attached, FirstSocket, HistoryKept, Serving
<1>5. WindowKnows /\ OneReader /\ Greeted /\ ExactOutput
  BY <1>1 DEF WindowKnows, OneReader, Greeted, ExactOutput
<1>6. QueueShape
  BY <1>2 DEF QueueShape
<1>7. NoOrphan /\ PausedHasReader
  BY <1>3 DEF NoOrphan, PausedHasReader
<1>8. CapRespected
  <2>1. {h \in Sockets : shell[h].det} = {}
    BY <1>3
  <2> QED BY <2>1, FS_EmptySet, Numbers DEF CapRespected
<1> QED BY <1>4, <1>5, <1>6, <1>7, <1>8 DEF IInv

LEMMA Step == IInv /\ [Next]_vars => IInv'
<1> SUFFICES ASSUME IInv, [Next]_vars PROVE IInv'
  OBVIOUS
<1>0. /\ TypeOK /\ Attached /\ FirstSocket /\ HistoryKept /\ WindowKnows /\ OneReader
      /\ QueueShape /\ Greeted /\ NoOrphan /\ PausedHasReader /\ CapRespected /\ ExactOutput
  BY DEF IInv
<1>1. Shape /\ Typed
  BY <1>0, ShapeStep
<1>2. Mail /\ TypeOK'
  BY <1>0, MailStep
<1>3. Attached' /\ FirstSocket' /\ HistoryKept'
  BY <1>0, <1>1, AttachedStep, FirstSocketStep, HistoryStep
<1>4. NoOrphan' /\ PausedHasReader' /\ CapRespected'
  BY <1>0, <1>1, NoOrphanStep, PausedStep, CapStep
<1>5. WindowKnows' /\ OneReader' /\ Greeted'
  BY <1>1, <1>2, WindowKnowsStep, OneReaderStep, GreetedStep
<1>6. QueueShape' /\ ExactOutput'
  BY <1>1, <1>2, <1>3, QueueShapeStep, ExactStep
<1> QED BY <1>2, <1>3, <1>4, <1>5, <1>6 DEF IInv

-----------------------------------------------------------------------------
\* The inductive invariant holds in every state of every behaviour.
THEOREM Inductive == Spec => []IInv
<1>1. Init => IInv
  BY Start
<1>2. IInv /\ [Next]_vars => IInv'
  BY Step
<1> QED BY <1>1, <1>2, PTL DEF Spec

\* Every variable always has its type.
THEOREM TypeCorrect == Spec => []TypeOK
<1>1. IInv => TypeOK
  BY DEF IInv
<1> QED BY <1>1, Inductive, PTL

\* However often connections drop, are taken over or are refused, and wherever the
\* messages are then: what planShellReplay and deliverShellOutput send a window goes on
\* at the byte it has, or says that some are gone, and nothing is sent twice.
THEOREM OutputIsExact == Spec => []ExactOutput
<1>1. IInv => ExactOutput
  BY DEF IInv
<1> QED BY <1>1, Inductive, PTL

\* A shell the gateway runs has a socket, or the timer of detachShellSession.
THEOREM ShellsAreHeld == Spec => []NoOrphan
<1>1. IInv => NoOrphan
  BY DEF IInv
<1> QED BY <1>1, Inductive, PTL

\* A shell is paused for the sake of a reader that is still there.
THEOREM PauseHasReader == Spec => []PausedHasReader
<1>1. IInv => PausedHasReader
  BY DEF IInv
<1> QED BY <1>1, Inductive, PTL

\* detachShellSession keeps no more than SSH_MAX_DETACHED_PER_USER shells.
THEOREM CapHolds == Spec => []CapRespected
<1>1. IInv => CapRespected
  BY DEF IInv
<1> QED BY <1>1, Inductive, PTL

=============================================================================
