--------------------------- MODULE TerminalResume ---------------------------
(***************************************************************************)
(* SSH terminals that survive a dropped connection: the shells the gateway *)
(* keeps (src/src/ssh-ws-proxy.ts), the WebSockets that attach to them and *)
(* the browser windows that reconnect and continue a shell at the byte     *)
(* they have (src/src/components/ssh-terminal-connection.ts).              *)
(*                                                                         *)
(* A step is what a process does without awaiting.  A network failure is   *)
(* seen by the two ends of a socket at different times, or by one only.    *)
(* All terminals have keep-alive on, belong to one user and one endpoint.  *)
(* A shell has the name of the socket that created it.                     *)
(***************************************************************************)
EXTENDS Integers, Sequences, FiniteSets

CONSTANTS
    Windows,      \* browser windows with a terminal
    MaxSockets,   \* bound on the connections they make in all
    MaxOutput,    \* bound on the bytes a shell prints
    History,      \* SSH_OUTPUT_HISTORY_BYTES
    MaxDetached,  \* SSH_MAX_DETACHED_PER_USER
    None

Sockets == 1 .. MaxSockets

ASSUME ConstantsAssumption ==
    /\ {MaxSockets, MaxOutput, History, MaxDetached} \subseteq Nat
    /\ None \notin Windows \cup Sockets

VARIABLES
    shell,   \* the shells
    sock,    \* the gateway's handler of each connection
    down,    \* messages on the way to the window that has the connection
    win      \* the windows

vars == <<shell, sock, down, win>>

ShellId == Sockets \cup {None}
Offset == 0 .. MaxOutput
Shell == [st : {"none", "new", "connecting", "live", "ended"}, att : ShellId,
          start : Offset, end : Offset, paused : BOOLEAN, det : BOOLEAN]
Sock == [at : {"unused", "dialing", "auth", "on", "over"}, open : BOOLEAN, sh : ShellId,
         resume : ShellId, offset : Offset, bye : BOOLEAN]
Win == [cur : ShellId, id : ShellId, got : Offset, gone : BOOLEAN]
Message == [t : {"session", "output", "closed", "error"}, sh : ShellId,
            from : Offset, to : Offset, cut : BOOLEAN]

Bare(st) == [st |-> st, att |-> None, start |-> 0, end |-> 0, paused |-> FALSE, det |-> FALSE]
NoShell == Bare("none")
NewShell == Bare("new")
EndedShell == Bare("ended")

Session(h, offset, cut) ==
    [t |-> "session", sh |-> h, from |-> offset, to |-> offset, cut |-> cut]
Output(h, from, to) == [t |-> "output", sh |-> h, from |-> from, to |-> to, cut |-> FALSE]
Notice(t, cut) == [t |-> t, sh |-> None, from |-> 0, to |-> 0, cut |-> cut]
Closed(forget) ==      \* forget: the shell exited or was idle, reasons "exit" and "idle"
    Notice("closed", forget)
Error == Notice("error", FALSE)

Init ==
    /\ shell = [h \in Sockets |-> NoShell]
    /\ sock = [s \in Sockets |-> [at |-> "unused", open |-> FALSE, sh |-> None,
                                  resume |-> None, offset |-> 0, bye |-> FALSE]]
    /\ down = [s \in Sockets |-> <<>>]
    /\ win = [w \in Windows |-> [cur |-> None, id |-> None, got |-> 0, gone |-> FALSE]]

-----------------------------------------------------------------------------
\* What the gateway's helpers do to a shell.

Alive(h) == shell[h].st \in {"connecting", "live"}   \* in resumableSessions
RoomLeft(h, rec) ==      \* rec: what the shell h has become meanwhile
    Cardinality({g \in Sockets : IF g = h THEN rec.det ELSE shell[g].det}) < MaxDetached

\* Variant: the cap on detached shells is not looked at.
DetachedUncapped(h, rec) ==
    IF rec.st # "live" THEN EndedShell
    ELSE [rec EXCEPT !.att = None, !.det = TRUE, !.paused = FALSE]

\* Variant: the output stays paused for the reader that has gone.
DetachedPaused(h, rec) ==
    IF rec.st # "live" \/ ~RoomLeft(h, rec) THEN EndedShell
    ELSE [rec EXCEPT !.att = None, !.det = TRUE]

\* detachShellSession: keep the shell if there is one and room for it, else end it.
Detached(h, rec) ==
    IF rec.st # "live" \/ ~RoomLeft(h, rec) THEN EndedShell
    ELSE [rec EXCEPT !.att = None, !.det = TRUE, !.paused = FALSE]

\* recordShellOutput, one byte.
Recorded(rec) ==
    [rec EXCEPT !.end = @ + 1, !.start = IF rec.end + 1 - @ > History THEN @ + 1 ELSE @]

\* Variant: everything that is kept is sent again.
ReplayFromAll(rec, offset) == rec.start
\* planShellReplay.
ReplayFrom(rec, offset) ==
    IF offset >= rec.end THEN rec.end ELSE IF offset >= rec.start THEN offset ELSE rec.start
Truncated(rec, offset) == offset < rec.start

\* releaseAttachment and closing the socket.
Released(s) == [sock EXCEPT ![s] = [@ EXCEPT !.at = "over", !.open = FALSE]]

\* A window that has dropped the socket reads no message of it.
Read(s) == \E w \in Windows : win[w].cur = s
Queue(s, ms) == IF Read(s) THEN [down EXCEPT ![s] = @ \o ms] ELSE down

-----------------------------------------------------------------------------
\* The gateway's connection handler.

\* The session, the permission, a capacity or the handshake is refused.
Refuse(s) ==
    /\ sock[s].at = "dialing"
    /\ sock' = Released(s)
    /\ down' = IF sock[s].open THEN Queue(s, <<Error>>) ELSE down
    /\ UNCHANGED <<shell, win>>

Claimable(s) == sock[s].resume # None /\ Alive(sock[s].resume)

\* Variant: a shell claimed for a window that has left is not given back.
ClaimNotGivenBack(s) ==
    /\ sock[s].at = "dialing" /\ Claimable(s)
    /\ LET h == sock[s].resume
           old == shell[h].att
           free == [shell[h] EXCEPT !.att = None, !.det = FALSE]
           rest == IF old = None THEN sock ELSE Released(old)
       IN  /\ shell' = [shell EXCEPT ![h] = free]
           /\ sock' = IF sock[s].open
                      THEN [rest EXCEPT ![s] = [@ EXCEPT !.at = "auth", !.sh = h]]
                      ELSE [rest EXCEPT ![s].at = "over"]
           /\ down' = IF old = None THEN down ELSE Queue(old, <<Closed(FALSE)>>)
    /\ UNCHANGED win

\* claimShellSession: the shell is taken from the socket attached to it.  It is
\* given back at once if the window has left during the checks.
Claim(s) ==
    /\ sock[s].at = "dialing" /\ Claimable(s)
    /\ LET h == sock[s].resume
           old == shell[h].att
           free == [shell[h] EXCEPT !.att = None, !.det = FALSE]
           rest == IF old = None THEN sock ELSE Released(old)
       IN  /\ shell' = [shell EXCEPT ![h] = IF sock[s].open THEN free
                                            ELSE Detached(h, free)]
           /\ sock' = IF sock[s].open
                      THEN [rest EXCEPT ![s] = [@ EXCEPT !.at = "auth", !.sh = h]]
                      ELSE [rest EXCEPT ![s].at = "over"]
           /\ down' = IF old = None THEN down ELSE Queue(old, <<Closed(FALSE)>>)
    /\ UNCHANGED win

\* There is no shell to continue: a new one, if the window is still there.
Create(s) ==
    /\ sock[s].at = "dialing" /\ ~Claimable(s)
    /\ IF sock[s].open
       THEN /\ shell' = [shell EXCEPT ![s] = NewShell]
            /\ sock' = [sock EXCEPT ![s] = [@ EXCEPT !.at = "auth", !.sh = s]]
       ELSE /\ sock' = [sock EXCEPT ![s].at = "over"]
            /\ UNCHANGED shell
    /\ UNCHANGED <<down, win>>

\* ensureAuthorized has answered: attach, and replay what the window has not seen,
\* from a safe place when its beginning is gone; a new shell is opened.
Attach(s) ==
    LET h == sock[s].sh
        rec == shell[h]
        cut == Truncated(rec, sock[s].offset)
    IN  /\ sock[s].at = "auth" /\ rec.st # "ended"
        /\ sock' = [sock EXCEPT ![s].at = "on"]
        /\ IF h = s
           THEN /\ shell' = [shell EXCEPT ![h] = [@ EXCEPT !.att = s, !.st = "connecting"]]
                /\ UNCHANGED down
           ELSE /\ shell' = [shell EXCEPT ![h] = [@ EXCEPT !.att = s, !.paused = FALSE]]
                /\ \E from \in ReplayFrom(rec, sock[s].offset) .. rec.end :
                      /\ cut \/ from = ReplayFrom(rec, sock[s].offset)
                      /\ down' = Queue(s, <<Session(h, from, cut)>> \o
                                   IF from < rec.end THEN <<Output(h, from, rec.end)>> ELSE <<>>)
        /\ UNCHANGED win

\* The shell ended while the connection was being authorized.
AttachLate(s) ==
    /\ sock[s].at = "auth" /\ shell[sock[s].sh].st = "ended"
    /\ sock' = Released(s)
    /\ down' = Queue(s, <<Closed(FALSE)>>)
    /\ UNCHANGED <<shell, win>>

\* stopTerminal: access was refused, or the window broke the protocol.
Deny(s) ==
    /\ sock[s].at \in {"auth", "on"}
    /\ sock' = Released(s)
    /\ down' = Queue(s, <<Error>>)
    /\ shell' = [shell EXCEPT ![sock[s].sh] = EndedShell]
    /\ UNCHANGED win

\* dropConnection: the check could not be made, or the send queue is full.
Drop(s) ==
    /\ sock[s].at \in {"auth", "on"}
    /\ sock' = Released(s)
    /\ shell' = [shell EXCEPT ![sock[s].sh] = Detached(sock[s].sh, @)]
    /\ UNCHANGED <<down, win>>

\* Variant: a close is looked at only once the shell is attached.
CloseOnlyAttached(s) ==
    /\ sock[s].open
    /\ IF sock[s].at = "on"
       THEN /\ sock' = Released(s)
            /\ shell' = [shell EXCEPT ![sock[s].sh] = Detached(sock[s].sh, @)]
       ELSE /\ sock' = [sock EXCEPT ![s].open = FALSE]
            /\ UNCHANGED shell
    /\ UNCHANGED <<down, win>>

\* The close event: the window has left, or the heartbeat found the socket dead.
Close(s) ==
    /\ sock[s].open
    /\ IF sock[s].at \in {"auth", "on"}
       THEN /\ sock' = Released(s)
            /\ shell' = [shell EXCEPT ![sock[s].sh] = Detached(sock[s].sh, @)]
       ELSE /\ sock' = [sock EXCEPT ![s].open = FALSE]
            /\ UNCHANGED shell
    /\ UNCHANGED <<down, win>>

\* The "end" message: the user has closed the terminal.
ByeArrives(s) ==
    /\ sock[s].bye /\ sock[s].at \in {"auth", "on"}
    /\ sock' = Released(s)
    /\ shell' = [shell EXCEPT ![sock[s].sh] = EndedShell]
    /\ UNCHANGED <<down, win>>

-----------------------------------------------------------------------------
\* The remote shell and the gateway's timers.

ShellOpens(h) ==
    /\ shell[h].st = "connecting"
    /\ shell' = [shell EXCEPT ![h].st = "live"]
    /\ down' = IF shell[h].att = h THEN Queue(h, <<Session(h, 0, FALSE)>>) ELSE down
    /\ UNCHANGED <<sock, win>>

\* deliverShellOutput: into the history, and to the window; the send may find that
\* the shell has to pause.  (A full queue is Drop, after the byte is recorded.)
Prints(h) ==
    LET s == shell[h].att IN
    /\ shell[h].st = "live" /\ ~shell[h].paused /\ shell[h].end < MaxOutput
    /\ IF s = None
       THEN shell' = [shell EXCEPT ![h] = Recorded(@)] /\ UNCHANGED <<sock, down>>
       ELSE \/ /\ \E paused \in BOOLEAN :
                     shell' = [shell EXCEPT ![h] = [Recorded(@) EXCEPT !.paused = paused]]
               /\ down' = Queue(s, <<Output(h, shell[h].end, shell[h].end + 1)>>)
               /\ UNCHANGED sock
            \/ /\ shell' = [shell EXCEPT ![h] = Detached(h, Recorded(@))]
               /\ sock' = Released(s)
               /\ UNCHANGED down
    /\ UNCHANGED win

\* The drain timer: the socket's queue is short again, or the window has stopped
\* acknowledging.
Drain(h) ==
    /\ shell[h].paused /\ shell[h].att # None
    /\ shell' = [shell EXCEPT ![h].paused = FALSE]
    /\ UNCHANGED <<sock, down, win>>

\* endShellSession with a notice, or fail: the shell exits, is idle, is lost or
\* cannot be opened.
ShellEnds(h) ==
    LET s == shell[h].att IN
    /\ Alive(h)
    /\ shell' = [shell EXCEPT ![h] = EndedShell]
    /\ IF s = None
       THEN UNCHANGED <<sock, down>>
       ELSE /\ sock' = Released(s)
            /\ \E forget \in {FALSE, shell[h].st = "live"} : down' = Queue(s, <<Closed(forget)>>)
    /\ UNCHANGED win

\* The time a detached shell is kept has passed: it ends without a notice.
DetachTimeout(h) ==
    /\ shell[h].det
    /\ shell' = [shell EXCEPT ![h] = EndedShell]
    /\ UNCHANGED <<sock, down, win>>

\* The gateway stops and starts again: its shells and sockets are gone.
Restart ==
    /\ shell' = [h \in Sockets |-> IF shell[h].st = "none" THEN NoShell ELSE EndedShell]
    /\ sock' = [s \in Sockets |-> IF sock[s].at = "unused" THEN sock[s]
                                  ELSE [sock[s] EXCEPT !.at = "over", !.open = FALSE]]
    /\ UNCHANGED <<down, win>>

-----------------------------------------------------------------------------
\* The browser.

Dropped(w) == IF win[w].cur = None THEN down ELSE [down EXCEPT ![win[w].cur] = <<>>]

\* attempt: after a drop, a missed heartbeat answer, a wake-up or by the user.  The
\* old socket is dropped, the new one asks for the shell from the byte received.
Dial(w) ==
    LET s == CHOOSE n \in Sockets : sock[n].at = "unused" /\ \A m \in 1 .. n - 1 : sock[m].at # "unused"
    IN  /\ \E n \in Sockets : sock[n].at = "unused"
        /\ ~win[w].gone
        /\ sock' = [sock EXCEPT ![s] = [at |-> "dialing", open |-> TRUE, sh |-> None,
                                        resume |-> win[w].id, bye |-> FALSE,
                                        offset |-> IF win[w].id = None THEN 0 ELSE win[w].got]]
        /\ win' = [win EXCEPT ![w].cur = s]
        /\ down' = Dropped(w)
        /\ UNCHANGED shell

\* onmessage.
Receive(w) ==
    LET s == win[w].cur
        m == Head(down[s])
    IN  /\ s # None /\ down[s] # <<>>
        /\ down' = [down EXCEPT ![s] = Tail(@)]
        /\ win' = [win EXCEPT ![w] = [win[w] EXCEPT
                     !.id = CASE m.t = "session" -> m.sh
                              [] m.t = "closed" /\ m.cut -> None
                              [] OTHER -> @,
                     !.got = CASE m.t = "session" -> m.to
                               [] m.t = "output" -> @ + (m.to - m.from)
                               [] OTHER -> @]]
        /\ UNCHANGED <<shell, sock>>

\* onclose, or the page is left: messages still on the way are lost.  A reloaded
\* page has the shell's id from the session storage and nothing on the screen.
Leaves(w, reload) ==
    /\ win[w].cur # None
    /\ win' = [win EXCEPT ![w] = [win[w] EXCEPT !.cur = None, !.got = IF reload THEN 0 ELSE @]]
    /\ down' = Dropped(w)
    /\ UNCHANGED <<shell, sock>>

\* end, or dispose without it.
Dispose(w, bye) ==
    /\ ~win[w].gone
    /\ win' = [win EXCEPT ![w] = [cur |-> None, id |-> None, got |-> 0, gone |-> TRUE]]
    /\ sock' = IF bye /\ win[w].cur # None THEN [sock EXCEPT ![win[w].cur].bye = TRUE] ELSE sock
    /\ down' = Dropped(w)
    /\ UNCHANGED shell

-----------------------------------------------------------------------------
Handle(s) == Refuse(s) \/ Claim(s) \/ Create(s)
Authorize(s) == Attach(s) \/ AttachLate(s) \/ (sock[s].at = "auth" /\ (Deny(s) \/ Drop(s)))
Revalidate(s) == sock[s].at = "on" /\ (Deny(s) \/ Drop(s))

Next ==
    \/ \E s \in Sockets : \/ Handle(s) \/ Authorize(s) \/ Revalidate(s)
                          \/ Close(s) \/ ByeArrives(s)
    \/ \E h \in Sockets : \/ ShellOpens(h) \/ Prints(h) \/ Drain(h) \/ ShellEnds(h)
                          \/ DetachTimeout(h)
    \/ Restart
    \/ \E w \in Windows : \/ Dial(w) \/ Receive(w)
                          \/ \E b \in BOOLEAN : Leaves(w, b) \/ Dispose(w, b)

Spec == Init /\ [][Next]_vars

\* The gateway's awaits have deadlines, its timers fire, and its heartbeat finds a
\* socket that no window has any more.  A shell that is being opened opens or fails.
FairSpec ==
    /\ Spec
    /\ \A s \in Sockets : /\ WF_vars(Handle(s)) /\ WF_vars(Authorize(s))
                          /\ WF_vars(~Read(s) /\ Close(s))
    /\ \A h \in Sockets : /\ WF_vars(DetachTimeout(h))
                          /\ WF_vars(ShellOpens(h) \/ (shell[h].st = "connecting" /\ ShellEnds(h)))

-----------------------------------------------------------------------------
\* Properties.

\* Every variable has its type.
TypeOK ==
    /\ shell \in [Sockets -> Shell] /\ sock \in [Sockets -> Sock]
    /\ down \in [Sockets -> Seq(Message)]
    /\ win \in [Windows -> Win]

\* The output a window has when it has read the first n messages of its queue.
Position(w, n) == IF n = 0 THEN win[w].got ELSE down[win[w].cur][n].to

\* Nothing is shown twice and nothing is missing: what a window is sent starts at
\* the byte it has, or after it and then says so; and the window of the attached
\* socket has, with what is on the way to it, everything the shell has printed.
ExactOutput ==
    \A w \in Windows : win[w].cur # None =>
        LET s == win[w].cur
            q == down[s]
        IN  /\ \A i \in 1 .. Len(q) :
                  /\ q[i].t = "output" => q[i].from = Position(w, i - 1)
                  /\ q[i].t = "session" /\ q[i].sh = win[w].id
                        => \/ q[i].to = Position(w, i - 1)
                           \/ q[i].cut /\ q[i].to > Position(w, i - 1)
            /\ \A h \in Sockets : shell[h].st = "live" /\ shell[h].att = s
                  => Position(w, Len(q)) = shell[h].end

\* A shell is never left behind: somebody is attached to it, is about to be, or
\* the timer that ends it runs.
NoOrphan ==
    \A h \in Sockets : shell[h].st \in {"new", "connecting", "live"}
        => \/ shell[h].att # None \/ shell[h].det
           \/ \E s \in Sockets : sock[s].at = "auth" /\ sock[s].sh = h

\* Output is paused only for somebody who lets it go on: the attached socket, whose
\* drain timer looks at it, or one that is about to attach.  A shell nobody reads
\* runs on, into its history.
PausedHasReader ==
    \A h \in Sockets : shell[h].paused
        => \/ shell[h].att # None
           \/ \E s \in Sockets : sock[s].at = "auth" /\ sock[s].sh = h

\* No more shells wait for a reconnect than the cap allows, however sockets claim
\* them and give them back.
CapRespected == Cardinality({h \in Sockets : shell[h].det}) <= MaxDetached

\* A detached shell is one no browser is attached to.
DetachedHasNoBrowser ==
    \A h \in Sockets : shell[h].det => \A s \in Sockets : ~(sock[s].at = "on" /\ sock[s].sh = h)

\* When the last terminal is closed no shell stays open, with or without a goodbye
\* and wherever its connections were.
EveryShellEnds ==
    (\A w \in Windows : win[w].gone) ~> (\A h \in Sockets : shell[h].st \in {"none", "ended"})

=============================================================================
