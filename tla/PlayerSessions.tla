----------------------------- MODULE PlayerSessions -----------------------------
(***************************************************************************)
(* The players of the server: from the accepted connection through         *)
(* handshake, login and the wait for the spawn chunks to the game, and out *)
(* again, with the player files and the bans (server.cpp, server.h,        *)
(* player_conn/server_pconnstate_manager.cpp, command_ban.cpp,             *)
(* command_kick.cpp).                                                      *)
(*                                                                         *)
(* What a player has (position, health, inventory) is a counter that grows *)
(* with everything he does, so that of two versions of it the smaller is   *)
(* the older one.  A tick is a program counter over the phases of          *)
(* Server::Tick; the sessions are visited in the order of the vector       *)
(* players.  Timers count ticks, and stop at their limit.                  *)
(***************************************************************************)
EXTENDS Naturals, Sequences, FiniteSets, SequencesExt

CONSTANTS
    Sessions,      \* PlayerSession objects
    Names,         \* player names
    NoName,        \* the name of a session before its login packet
    NoSession,     \* no session
    NoEntity,      \* a session that has not logged in has no player entity
    MaxPlayers,    \* maximumPlayers
    Timeout,       \* timeoutSeconds, in ticks
    AuthTimeout,   \* K_AUTH_TIMEOUT, in ticks
    SaveInterval,  \* ticks between two autosaves
    MaxHeld        \* bound: how often a player's state changes

ASSUME TimersType == Timeout \in Nat /\ AuthTimeout \in Nat
ASSUME LimitsType == /\ MaxPlayers \in Nat \ {0}
                     /\ SaveInterval \in Nat \ {0}
                     /\ MaxHeld \in Nat
ASSUME NullsType == NoName \notin Names /\ NoSession \notin Sessions /\ NoEntity \notin Nat

VARIABLES
    players,     \* the sessions, in the order they were accepted
    session,     \* their PlayerSession objects
    file,        \* the player files
    banned,      \* bannedUsernames
    onlineMode,  \* names are verified with the authentication server
    frozen,      \* tickFrozen
    currentTick, \* ticks since the last autosave
    pc,          \* the phase of the tick
    next,        \* position of the session being visited
    kept,        \* history: sessions whose state was in the player file when they
                 \* were disconnected, and did not change since
    misboots     \* history: names whose ban hit another session than the player's

sessionVars == <<players, session>>
diskVars    == <<file, banned>>
configVars  == <<onlineMode, frozen, currentTick>>
tickVars    == <<pc, next>>
historyVars == <<kept, misboots>>
vars == <<sessionVars, diskVars, configVars, tickVars, historyVars>>

\* Handshaking and LoggingIn read the stream, VerifyingUsername waits for the
\* authentication server, WaitingForSpawnChunks for terrain.
ConnectionState == {"Handshaking", "LoggingIn", "VerifyingUsername",
                    "WaitingForSpawnChunks", "Playing"}
InGame == {"WaitingForSpawnChunks", "Playing"}

SessionType ==
    [connState : ConnectionState, connected : BOOLEAN, username : Names \cup {NoName},
     held : (0..MaxHeld) \cup {NoEntity}, registered : BOOLEAN, garbled : BOOLEAN,
     auth : {"none", "asked", "yes", "no"}, authTicks : 0..(AuthTimeout + 1),
     silent : 0..Timeout]

NewSession ==
    [connState |-> "Handshaking", connected |-> TRUE, username |-> NoName,
     held |-> NoEntity, registered |-> FALSE, garbled |-> FALSE,
     auth |-> "none", authTicks |-> 0, silent |-> 0]

Present == DOMAIN session

\* Every session object is in the vector once.
PlayersOK ==
    /\ ToSet(players) = Present
    /\ IsInjective(players)
    /\ Len(players) <= MaxPlayers

TypeOK ==
    /\ PlayersOK
    /\ Present \subseteq Sessions
    /\ session \in [Present -> SessionType]
    /\ file \in [Names -> 0..MaxHeld]
    /\ banned \subseteq Names
    /\ onlineMode \in BOOLEAN /\ frozen \in BOOLEAN
    /\ currentTick \in 0..(SaveInterval - 1)
    /\ pc \in {"commands", "incoming", "state", "world", "disconnect"}
    /\ next \in 1..(MaxPlayers + 1)
    /\ kept \subseteq Present
    /\ misboots \subseteq Names

Init ==
    /\ players = << >>
    /\ session = << >>
    /\ file = [n \in Names |-> 0]
    /\ banned = {}
    /\ onlineMode \in BOOLEAN
    /\ frozen = FALSE
    /\ currentTick = 0
    /\ pc = "commands"
    /\ next = 1
    /\ kept = {}
    /\ misboots = {}

-----------------------------------------------------------------------------
(* Helpers of Server.                                                      *)

Before(s, t) ==
    \E i, j \in DOMAIN players : i < j /\ players[i] = s /\ players[j] = t

\* What the vector is when only the sessions of `stay' are left in it.
InOrder(stay) ==
    LET Place(s) == Cardinality({t \in stay : t = s \/ Before(t, s)})
    IN  [k \in 1 .. Cardinality(stay) |-> CHOOSE s \in stay : Place(s) = k]

Namesakes(n) == {s \in Present : session[s].username = n}

FirstNamed(n) == {s \in Namesakes(n) : \A t \in Namesakes(n) : ~Before(t, s)}

\* The first session in players with this name.
GetSessionByUsername(n) ==
    IF FirstNamed(n) = {} THEN NoSession ELSE CHOOSE s \in FirstNamed(n) : TRUE

\* Slip: a session without an entity writes a player who has nothing.
SavedWithoutEntity(names) ==
    [n \in Names |->
        IF n \in names /\ GetSessionByUsername(n) # NoSession
        THEN IF session[GetSessionByUsername(n)].held = NoEntity THEN 0
             ELSE session[GetSessionByUsername(n)].held
        ELSE file[n]]

\* SavePlayer for each of these names: what the first session of that name has
\* goes into the file; a session without an entity writes nothing.
Saved(names) ==
    [n \in Names |->
        IF n \in names /\ GetSessionByUsername(n) # NoSession
           /\ session[GetSessionByUsername(n)].held # NoEntity
        THEN session[GetSessionByUsername(n)].held
        ELSE file[n]]

NameOf(s) == session[s].username

\* DisconnectPlayer with _doSave for this session.
DisconnectPlayer(s) ==
    /\ file' = Saved({NameOf(s)})
    /\ session' = [session EXCEPT ![s].connected = FALSE]
    /\ kept' = kept \cup {t \in Present : /\ t = s
                                          /\ session[t].held # NoEntity
                                          /\ file'[NameOf(t)] = session[t].held}

cur == players[next]
Visiting(phase) == pc = phase /\ next <= Len(players)

-----------------------------------------------------------------------------
(* Commands, of the console or of a visited player.                        *)

CommandsRun ==
    \/ pc = "commands"
    \/ /\ Visiting("incoming")
       /\ session[cur].connState = "Playing"
       /\ session[cur].connected

\* Slip: a player who is still logging in is not found.
BootedInGame(n) ==
    LET found == GetSessionByUsername(n)
    IN  IF found # NoSession /\ session[found].connState \in InGame THEN found ELSE NoSession

\* Whom kick and ban disconnect.
Booted(n) == GetSessionByUsername(n)

LoggedIn(s) == session[s].connState \in InGame \cup {"VerifyingUsername"}

KickPlayer(n) ==
    /\ CommandsRun
    /\ Booted(n) # NoSession
    /\ DisconnectPlayer(Booted(n))
    /\ UNCHANGED <<players, banned, configVars, tickVars, misboots>>

BanPlayer(n) ==
    /\ CommandsRun
    /\ n \notin banned
    /\ banned' = banned \cup {n}
    /\ IF Booted(n) # NoSession THEN DisconnectPlayer(Booted(n))
       ELSE UNCHANGED <<file, session, kept>>
    /\ misboots' = IF \E s \in Present : LoggedIn(s) /\ NameOf(s) = n
                                         /\ GetSessionByUsername(n) # s
                   THEN misboots \cup {n} ELSE misboots
    /\ UNCHANGED <<players, configVars, tickVars>>

PardonPlayer(n) ==
    /\ CommandsRun
    /\ n \in banned
    /\ banned' = banned \ {n}
    /\ misboots' = misboots \ {n}
    /\ UNCHANGED <<sessionVars, file, configVars, tickVars, kept>>

ToggleTickFreeze ==
    /\ CommandsRun
    /\ frozen' = ~frozen
    /\ UNCHANGED <<sessionVars, diskVars, onlineMode, currentTick, tickVars, historyVars>>

-----------------------------------------------------------------------------
(* Connections.                                                            *)

\* Which free object the new session gets makes no difference.
AcceptNewPlayers ==
    /\ pc = "commands"
    /\ Present # Sessions
    /\ Len(players) < MaxPlayers
    /\ LET s == CHOOSE t \in Sessions : t \notin Present
       IN  /\ players' = Append(players, s)
           /\ session' = [t \in Present \cup {s} |->
                             IF t = s THEN NewSession ELSE session[t]]
    /\ UNCHANGED <<diskVars, configVars, tickVars, historyVars>>

\* The write thread, or reading the socket, finds the connection closed.
ConnectionLost(s) ==
    /\ pc = "commands" \/ (Visiting("incoming") /\ s = cur)
    /\ s \in Present
    /\ session[s].connected
    /\ session' = [session EXCEPT ![s].connected = FALSE]
    /\ UNCHANGED <<players, diskVars, configVars, tickVars, historyVars>>

AuthAnswer(s, answer) ==
    /\ s \in Present
    /\ session[s].auth = "asked"
    /\ session' = [session EXCEPT ![s].auth = answer]
    /\ UNCHANGED <<players, diskVars, configVars, tickVars, historyVars>>

-----------------------------------------------------------------------------
(* The visit of a session: ProcessIncoming, then HandleConnectionState.    *)

StartVisits ==
    /\ pc = "commands"
    /\ pc' = "incoming"
    /\ UNCHANGED <<sessionVars, diskVars, configVars, next, historyVars>>

\* A packet of a player in the game changes what he has; of one who waits it
\* only counts as a sign of life.
Packet ==
    /\ Visiting("incoming")
    /\ session[cur].connState \in InGame
    /\ \E grown \in 0..1 :
        /\ grown = 1 => /\ session[cur].connState = "Playing"
                        /\ session[cur].connected
                        /\ session[cur].held < MaxHeld
        /\ session' = [session EXCEPT ![cur].silent = 0, ![cur].held = @ + grown]
    /\ pc' = "state"
    /\ UNCHANGED <<players, diskVars, configVars, next, historyVars>>

\* A chat command or a respawn sends the player to another world.
ToDimension ==
    /\ Visiting("incoming")
    /\ session[cur].connState = "Playing"
    /\ session[cur].connected
    /\ session' = [session EXCEPT ![cur].connState = "WaitingForSpawnChunks",
                                  ![cur].silent = 0]
    /\ pc' = "state"
    /\ UNCHANGED <<players, diskVars, configVars, next, historyVars>>

Leave ==
    /\ Visiting("incoming")
    /\ session[cur].connState = "Playing"
    /\ session[cur].connected
    /\ DisconnectPlayer(cur)
    /\ pc' = "state"
    /\ UNCHANGED <<players, banned, configVars, next, misboots>>

NoPacket ==
    /\ Visiting("incoming")
    /\ pc' = "state"
    /\ UNCHANGED <<sessionVars, diskVars, configVars, next, historyVars>>

InState(connState) == Visiting("state") /\ session[cur].connState = connState

NextSession == pc' = "incoming" /\ next' = next + 1

\* Nothing to read, or what is there is no packet of this state.
NothingRead ==
    /\ Visiting("state")
    /\ session[cur].connState # "VerifyingUsername"
    /\ NextSession
    /\ UNCHANGED <<sessionVars, diskVars, configVars, historyVars>>

\* A packet that has not fully arrived: its first bytes are gone, and the rest
\* is never read as a packet.
ShortRead ==
    /\ InState("Handshaking") \/ InState("LoggingIn")
    /\ session' = [session EXCEPT ![cur].garbled = TRUE]
    /\ NextSession
    /\ UNCHANGED <<players, diskVars, configVars, historyVars>>

HandleHandshake ==
    /\ InState("Handshaking")
    /\ ~session[cur].garbled
    /\ session' = [session EXCEPT ![cur].connState = "LoggingIn"]
    /\ NextSession
    /\ UNCHANGED <<players, diskVars, configVars, historyVars>>

\* FinishLogin: the player's file is read.
LoggedInSession(s, n) ==
    [session[s] EXCEPT !.username = n, !.held = file[n], !.auth = "none",
                       !.connState = "WaitingForSpawnChunks"]

\* Slip: a session that has been disconnected does not hold its name.
RejectedByConnected(n) ==
    \/ n \in banned
    \/ \E s \in Present \ {cur} : NameOf(s) = n /\ session[s].connected

\* Slip: only a player in the game holds his name.
RejectedByInGame(n) ==
    \/ n \in banned
    \/ \E s \in Present \ {cur} : NameOf(s) = n /\ session[s].connState \in InGame

\* The name is banned, or some session has it.
Rejected(n) == n \in banned \/ \E s \in Present \ {cur} : NameOf(s) = n

\* A refused session keeps the name it asked for until it is removed.
HandleLogin(n) ==
    /\ InState("LoggingIn")
    /\ ~session[cur].garbled
    /\ session' = [session EXCEPT ![cur] =
           IF Rejected(n) THEN [@ EXCEPT !.username = n, !.connected = FALSE]
           ELSE IF onlineMode
                THEN [@ EXCEPT !.username = n, !.auth = "asked",
                               !.connState = "VerifyingUsername"]
                ELSE LoggedInSession(cur, n)]
    /\ NextSession
    /\ UNCHANGED <<players, diskVars, configVars, historyVars>>

\* An invalid name, a banned address, a name that is not on the whitelist.
RefuseLogin ==
    /\ InState("LoggingIn")
    /\ ~session[cur].garbled
    /\ \E n \in Names \cup {NoName} :
           session' = [session EXCEPT ![cur].username = n, ![cur].connected = FALSE]
    /\ NextSession
    /\ UNCHANGED <<players, diskVars, configVars, historyVars>>

\* Slip: a question that is never answered is waited for for ever.
VerifyingUsernameNoTimeout ==
    /\ InState("VerifyingUsername")
    /\ session' = [session EXCEPT ![cur] =
           CASE @.auth = "yes" -> LoggedInSession(cur, @.username)
             [] @.auth = "asked" -> [@ EXCEPT !.authTicks = @ + 1]
             [] OTHER -> [@ EXCEPT !.connected = FALSE]]
    /\ NextSession
    /\ UNCHANGED <<players, diskVars, configVars, historyVars>>

HandleVerifyingUsername ==
    /\ InState("VerifyingUsername")
    /\ session' = [session EXCEPT ![cur] =
           CASE @.auth = "yes" -> LoggedInSession(cur, @.username)
             [] @.auth = "asked" /\ @.authTicks <= AuthTimeout ->
                    [@ EXCEPT !.authTicks = @ + 1]
             [] OTHER -> [@ EXCEPT !.connected = FALSE]]
    /\ NextSession
    /\ UNCHANGED <<players, diskVars, configVars, historyVars>>

\* WaitForSpawnChunks: the chunks around the player are written to his stream.
WaitForSpawnChunks ==
    /\ InState("WaitingForSpawnChunks")
    /\ session' = [session EXCEPT ![cur].connState = "Playing", ![cur].registered = TRUE]
    /\ NextSession
    /\ UNCHANGED <<players, diskVars, configVars, historyVars>>

-----------------------------------------------------------------------------
(* The rest of the tick.                                                   *)

SaveAllPlayers ==
    /\ pc = "incoming"
    /\ next > Len(players)
    /\ file' = IF ~frozen /\ currentTick = 0
               THEN Saved({NameOf(s) : s \in {t \in Present : session[t].connState \in InGame}})
               ELSE file
    /\ pc' = "world"
    /\ next' = 1
    /\ UNCHANGED <<sessionVars, banned, configVars, historyVars>>

\* The world ticks; what happens to an entity in it (damage, an item picked up)
\* happens to a disconnected player's as well.
WorldTick ==
    /\ pc = "world"
    /\ \/ UNCHANGED <<session, kept>>
       \/ /\ ~frozen
          /\ \E s \in Present :
                /\ session[s].registered
                /\ session[s].held < MaxHeld
                /\ session' = [session EXCEPT ![s].held = @ + 1]
                /\ kept' = kept \ {s}
    /\ currentTick' = IF frozen THEN currentTick ELSE (currentTick + 1) % SaveInterval
    /\ pc' = "disconnect"
    /\ UNCHANGED <<players, diskVars, onlineMode, frozen, next, misboots>>

\* Slip: only a player in the game times out.
SilentInGame == {s \in Present : session[s].silent >= Timeout
                                 /\ session[s].connState = "Playing"}

\* Sessions whose last packet is too long ago.
Silent == {s \in Present : session[s].silent >= Timeout}

\* Sessions that time out are saved if they play; all that are not connected
\* are removed.
DisconnectClients ==
    /\ pc = "disconnect"
    /\ file' = Saved({NameOf(s) : s \in {t \in Silent : session[t].connState = "Playing"}})
    /\ LET stay == {s \in Present \ Silent : session[s].connected}
       IN  /\ players' = InOrder(stay)
           /\ session' = [s \in stay |-> [session[s] EXCEPT !.silent = IF @ < Timeout THEN @ + 1 ELSE @]]
           /\ kept' = kept \cap stay
    /\ pc' = "commands"
    /\ UNCHANGED <<banned, configVars, next, misboots>>

\* The process ends, and the server starts again.
ServerGone ==
    /\ players' = << >>
    /\ session' = << >>
    /\ frozen' = FALSE
    /\ currentTick' \in 0..(SaveInterval - 1)
    /\ pc' = "commands"
    /\ next' = 1
    /\ kept' = {}
    /\ misboots' = {}
    /\ UNCHANGED <<banned, onlineMode>>

\* Stop, after the tick in which a shutdown was requested: everyone is
\* disconnected and saved.
Stop ==
    /\ pc = "commands"
    /\ file' = Saved({NameOf(s) : s \in Present})
    /\ ServerGone

Crash == ServerGone /\ UNCHANGED file

-----------------------------------------------------------------------------
(* The specification.                                                      *)

Environment ==
    \/ \E n \in Names : KickPlayer(n) \/ BanPlayer(n) \/ PardonPlayer(n)
    \/ ToggleTickFreeze
    \/ AcceptNewPlayers
    \/ \E s \in Sessions : ConnectionLost(s)
    \/ \E s \in Sessions, answer \in {"yes", "no"} : AuthAnswer(s, answer)
    \/ Stop
    \/ Crash

Tick ==
    \/ StartVisits
    \/ Packet
    \/ ToDimension
    \/ Leave
    \/ NoPacket
    \/ NothingRead
    \/ ShortRead
    \/ HandleHandshake
    \/ \E n \in Names : HandleLogin(n)
    \/ RefuseLogin
    \/ HandleVerifyingUsername
    \/ WaitForSpawnChunks
    \/ SaveAllPlayers
    \/ WorldTick
    \/ DisconnectClients

Next == Environment \/ Tick

Spec == Init /\ [][Next]_vars

\* The server keeps ticking; nothing is assumed of players, of the
\* authentication server or of whoever types commands.
FairSpec == Spec /\ WF_vars(Tick)

-----------------------------------------------------------------------------
(* Properties.                                                             *)

(* Two sessions that got past the duplicate check never share a name, although
   one may wait for its verification for many ticks: two of them would write
   the same player file (HandleLogin, HandleVerifyingUsername). *)
UniqueNames ==
    \A s, t \in Present : s # t /\ LoggedIn(s) /\ LoggedIn(t) => NameOf(s) # NameOf(t)

(* A player file never goes back to an older state of the player, whatever is
   saved by whom, in which order, before or after a crash (SavePlayer,
   GetSessionByUsername). *)
FileNeverOlder ==
    [][\A n \in Names : file'[n] >= file[n]]_vars

(* A player who was saved when he was disconnected, and to whom nothing
   happened since, finds that state in his file when his session is gone: no
   other session wrote over it, a namesake that was refused in the same tick
   included (DisconnectPlayer, DisconnectClients, SavePlayer). *)
LeaverIsKept ==
    [][\A s \in kept : s \notin Present' => file'[NameOf(s)] = session[s].held]_vars

(* A banned player is not in the game and does not get in, also when the ban
   comes while his name is being verified, except where the ban hit a session
   that was refused under the same name in the same tick (BanPlayer). *)
BannedAreOut ==
    \A s \in Present : LoggedIn(s) /\ session[s].connected
        => NameOf(s) \notin banned \/ NameOf(s) \in misboots

(* A connection that was accepted logs in or is removed: no session stays in
   the login for ever, whatever its client sends and whether or not the
   authentication server answers (DisconnectClients, K_AUTH_TIMEOUT). *)
LoginEnds ==
    \A s \in Sessions :
        s \in Present /\ session[s].connState \notin InGame
            ~> s \notin Present \/ session[s].connState \in InGame

=============================================================================
