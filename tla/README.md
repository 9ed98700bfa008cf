# Papayoo: specifications of the server, the players and their shared board

`serveur` and `joueur` play the card game Papayoo: one server process, two or
three players, TCP sockets for messages, and a board in System V shared memory
that the server writes and everybody reads. This directory holds TLA+
specifications of that program, the configurations with which TLC checks them on
small instances, and proofs that TLAPS checks for every instance.

## 1. Inventory

| Component | State | Operations | Interacts with |
|---|---|---|---|
| Shared board (`ipc.c`) | `board`, `rc`, two semaphores | `s_read_*`, `s_write_*`, `create_segment`, `init_semaphores`, `kill_ipcs` | called by server and players |
| Lobby (`serveur.c`) | `players[]`, `amount_players`, `SIGALRM` | `add_client`, `add_player`, `remove_player`, `alarm_handler`, `start_game`, `clear_lobby` | sockets, board |
| Main loop (`serveur.c`) | the `fd_set`, `i` | `select`, `dispatcher`, the two tests at lines 95 and 99 | calls every handler |
| Course of a game (`serveur.c`) | round, turn and ecart counters, `papayoo`, `ecarts_received` | `start_round`, `receive_ecart_from_player`, `send_ecart_back`, `receive_played_card`, `end_turn`, `end_round`, `update_score`, `end_game`, `send_basic_info` | sockets, board |
| Cards (`cards.h`) | the deck | `init_deck`, `shuffle_deck`, `deal_cards`, the loop of `end_turn`, the sum of `add_score` | used by both programs |
| Player (`joueur.c`) | `deck`, `plis`, `info`, `waiting_for_ecart`, `mSent` | `try_to_connect`, `signup`, the `switch` of `main`, `send_ecart`, `play_card`, `interrupt_handler` | sockets, board, the user |
| Sockets (`socket.c`) | kernel buffers | `connect_to_server`, `send_message`, `receive_message`, `shutdown_socket` | between the two programs |
| Parsing of the ecart (`joueur.c`) | `array_ints`, allocated once per ecart and never initialised | `send_ecart`, `convert_input_to_integer_array`, `remove_ecart` | the user |
| Shutdown of the server (`serveur.c`, `ipc.c`) | the handlers that run, the descriptors, the semaphores | `interrupt_handler`, `shutdown_server`, `clear_lobby`, `kill_ipcs` | everything |
| Display, start-up | – | `show_*`, lock file | the user |

What is hard to test here:

* **Interleavings on the board.** The readers/writers algorithm is executed by up
  to four processes, and a player can be ended by a signal on any line of it.
* **Order of messages.** The server counts ecarts, cards and scores and compares
  the counts by equality; players report in any order, and a user may ask for the
  scores, or press Enter, at any moment.
* **One global `mess`** for all messages, and one static `mSent`: a field that a
  message does not set has the value the last one left.
* **Departures.** `remove_player` shifts `players[]` under the loop that iterates
  over it; `clear_lobby` resets some of the static variables and not others; a
  write to a player who has left raises `SIGPIPE`.
* **Signals.** `SIGALRM` starts games, from inside whatever the server is doing;
  `SIGINT`, `SIGTERM` and `SIGQUIT` shut it down from there, inside a board call or
  inside each other's handler.
* **Memory nobody set.** The integers of an ecart are what older lines and `malloc`
  have left.

What makes each part correct: a read returns a value written as a whole, and every
call returns (board); a lobby is never without its alarm and a game is played by
those who signed up (lobby); one player has the turn, no card is lost or doubled,
the ecarts come back when all are there, a trick goes to the right player, the
scores are what was taken, the game ends at everybody (course of a game); a
player decides on the information of this round (player); one player who leaves
does not take the game of the others into limbo (lobby and sockets); a signal ends
the server and its clients and leaves no semaphore behind (shutdown); what is given
away is what was typed (parsing).

`PROJECT.json` lists the hazards at their lines, each with the properties aimed at it.

## 2. Modules

| Module | Models | Builds on |
|---|---|---|
| `AtomicBoard` | what `ipc.c` promises: a register with instantaneous reads and writes | – |
| `SharedMemory` | `ipc.c`, one action per semaphore operation and per access | refines `AtomicBoard` |
| `SharedMemory_proofs` | theorems about `SharedMemory` | `SharedMemory` |
| `Cards` | deck, deal, loser of a trick, points | – |
| `Network` | `socket.c` over TCP on one host | – |
| `State` | the variables of both programs | `Cards`, `Network` |
| `Server` | `serveur.c` | `State` |
| `Client` | `joueur.c` | `State` |
| `Papayoo` | the whole program, and its properties | `Server`, `Client` |
| `Papayoo_proofs` | queues and what they count, sums, who takes a trick, who sits at the table of a game; turns, ecarts and information in a game that nobody disturbs | `Papayoo` |
| `Messages_proofs` | types, the order of the messages, what each step changes, in such a game | `Papayoo_proofs` |
| `Hands_proofs` | cards and points in such a game | `Messages_proofs` |
| `Game` | the abstract game: deal, ecarts, tricks, points; no messages | `Cards` |
| `PapayooGame` | the mapping under which `Papayoo` implements `Game` | `Papayoo`, refines `Game` |
| `PapayooGame_proofs` | that it does, in a game that nobody disturbs | `Hands_proofs`, `PapayooGame` |
| `Lobby` | `add_client`, the receive and dispatch, `add_player`, `remove_player` by statement, `alarm_handler` between any two | – |
| `Lobby_proofs` | theorems about `Lobby` | `Lobby` |
| `Shutdown` | `interrupt_handler` over a server that may be inside `ipc.c` | `SharedMemory` |
| `Shutdown_proofs` | theorems about `Shutdown` | `Shutdown`, `SharedMemory_proofs` |
| `EcartInput` | `send_ecart` and its parser over arbitrary memory | – |
| `EcartInput_proofs` | theorems about `EcartInput` | `EcartInput` |
| `MCSharedMemory`, `MCPapayoo`, `MCLobby`, `MCShutdown`, `MCEcartInput` | the values of the constants | |

The four state machines look at the same code at different grains: `Papayoo` takes a
handler as one step, so that whole games can be explored; `SharedMemory` and
`Shutdown` split the board calls, `Lobby` the handlers of the lobby, `EcartInput` the
parser that `Client` takes as "any legal choice".

### SharedMemory

`pc[p]` is the next line of `ipc.c` a process executes: `r_lock` … `r_close` are
the nine statements of an `s_read_*` function (lines 24–33), `w_lock` … `w_close`
those of an `s_write_*` function (108–110). The four readers differ only in the
field they copy, and so do the writers: one of each stands for all. `memcpy` and
`strcpy` are two steps, so that a torn copy would be visible. `ReadFirst` waits
for `mutex_mem` while `mutex_rc` is held, as line 26 does. A player reads only
because the server has sent it something to show (`pending`, `Broadcast`; two
reads for each message, as in `show_info` and `show_pli`). `ClientExit` is the
player's signal handler, on any line; `ServerRestart` is a server that died
without `kill_ipcs` and was started again.

### Network, Server, Client

`toServer[c]` and `toClient[c]` are the socket buffers, one struct per element.
`conn[c]` tells how far each end has got: `backlog`, `open`; `closed`, `reset`
and `pipe` when the player has closed its end and the server has since written
nothing, once, or twice; `dropped` and `broken` when the server has closed and the
player has not noticed, or has written since; `refused` for the sockets that
`add_client` turns away, which nobody reads or closes.

`loop` is the position of the server's `main`: in `select`, in the accept, in the
`for` loop at index `i` over the sockets that were ready, asleep in `end_game` or
`remove_player` (where `select` is far away but players and signals go on), or at
the two tests. Each handler is one action named after its function and includes
every function it calls: `EndRound` is `receive_played_card`, `end_turn`,
`send_pli`, `end_round` and `ask_for_score`. `srv` holds the static variables of
`serveur.c`, `board` the shared board, read and written at once, which is what
`SharedMemory` refining `AtomicBoard` allows. Three variables of the code are not
carried: `one_card_played_received` (TRUE wherever it is tested),
`server_running` (never read), and `current_round` inside `info` (only displayed).

`cl[c]` holds the statics of `joueur.c`; `pc` is `main`, or the place where the
player waits: in `try_to_connect` (`greet`), at its name (`signup`), at the ecart,
at a card. The answer of a user is any legal choice. `Disturbs` is what nobody
asked for: `s` and Enter (`ask_basic_info`); any other line, which sends `mSent`
once more because the `if` of line 71 has no braces (`resend`); leaving (`quit`).
Messages a player only prints (`INFO`, `SIGNED_UP`, `NO_INFO`) are writes that may meet
a closed socket, and nothing in a queue: `ServerInforms`, beside `ServerSend`.

`hist` is history and changes nothing: whose ecart of this round has arrived, and
the points of the tricks each player has taken.

`Typists` are the clients whose users may type unasked, `MaxLines` lines each.

### Game and PapayooGame

`Game` has the hands, the ecarts, the trick and the totals as its players see them,
and no server. The mapping gives each player the cards in its client together with
those on their way to it: a card is played when the user has chosen it, points are
taken when `end_turn` has counted the trick, whatever messages are under way. A
round lasts in `Game` until the scores are in (`updating_score`). `ImplementsGame` is
checked where nobody leaves; a cancelled game is no step of `Game`.

### Lobby

`main.pc` names the statement: `test` (line 130), `count` and `store` (137: the build
stores the new count before the socket), `set_alarm` (138), `ok` (140), `greet` (142);
`refuse` and `turn_down` (131, 133); `serve` and `dispatch` (86, 87); `name` (165),
`answer` (166) and `reply` (168, and 777 of `send_basic_info`); `zero`, `reset`, `shift`
(331 to 341), `tell` (344), `broadcast` (345), `running` (346) and `cancel` (347 to 351):
a code is stored in one statement and sent by another, and the alarm may come in
between. `alarm_handler` is one action, since a handler blocks its own
signal and nothing else runs in this process. Of the global `mess` only `code` is
kept, as the codes decide what the next statement does with it: `C_INFO` has the
number of `C_UPDATE_SCORE`, and `C_INIT_DECK_RECEIVED` is the first index past the
dispatcher; and a send with `C_INIT_DECK_RECEIVED` in `mess` is a hand, whoever meant
it to be something else. `Shift` reads `players[MAX_PLAYERS]`, which in the build is
`server_running` and `game_running` (and bytes that nobody typed, for the name).

`conn` is where the client at the other end is. From the store of its socket
(`greeting`) every broadcast reaches a client, those of the alarm included, and its first
message decides: `C_OK` makes it `welcome`, anything else is a refusal to `joueur.c:373`
(`unheard`). `Ungreeted` are the clients the alarm writes to before `Greet` does.

What a game consists of is left to `Papayoo`: `EndGame` is its end, possible when
every player was dealt a hand and is there. Of the messages of users, signing up and
asking for the scores are there. A connection the server refused, or whose
greeting the client took for a refusal, is used again as a new one when the client
connects again, which keeps the connections finite; the code opens a new descriptor
each time. A write to a player who has left does not raise `SIGPIPE` here.

`past` is history: whom the hands were dealt to, one entry for each, and who had no name
by then, where `main` was when the game started, whose sign-up and whose greeting the
alarm spoilt.

### Shutdown

`frames` is the stack of handlers on top of the interrupted code; `pc[Server]` of
`SharedMemory` is where that code is, `main` or `alarm_handler`. A handler blocks its
own signal and `SIGALRM`, not the two others. `HandlerWrites` is the number of writes
of `clear_lobby`, seven in the code. `removed` is what `kill_ipcs` has taken away, and
a `semop` on it ends its process (`DiesOfSemop`).

`seats` are the clients of `players[]`. `stale` is TRUE from the `close()` of a player to
the new value of `players[]`: in that time the handler's own `close()` fails and exits.
`written` are the players who have left, still have a seat, and have been written to
since: the next write to one of them raises `SIGPIPE`, in `main` (`MainSends` goes to any
set of players, `MainDiesOfPipe`) or in the broadcast of the handler (`TellFails`).

### EcartInput

A line is a sequence of numbers, as `strtok` and `atoi` find them. `array` has one
element more than the `malloc` asked for, which is where a number too many goes: the
allocator rounds 20 bytes up to 24, and the action that writes it ends the line.
`Memory` is what `malloc` may leave. A card is known by its position.

### Abstractions to know about

* In `Papayoo`, `SIGALRM` is taken between two handlers; `Lobby` has it inside them.
* A handler that dies by `SIGPIPE` finishes in the model before the process ends
  (`ServerKilled`); the messages it sends after the fatal one are delivered, though in
  the code they are not. The server also ends by a division when a round starts without
  players (`RoundOfNobody`). Death by `SIGPIPE` takes two writes after the player's
  close: the first is answered by a reset, the second finds it.
* Sends and receives move a whole struct. `sleep` has no length.
* Names are the clients themselves; the user types `EcartSize` different cards.
* Player programs that end are not started again.

## 3. Runs

TLC runs with `Init` and `Next` unchanged; the configurations only give constants
their values. The code has 4 suits of 10, 20 Payoos, ecarts of 5, 3 tricks and 3
rounds. The instances are smaller in the number of cards; the guards of the code
look at counts and positions, not at how many cards a hand has.

| Run | Instance | Shows |
|---|---|---|
| `shared_memory` | server, 2 players, 2 values, `MaxPending` 2, one of the players may exit anywhere | types; `Inv`; `Exclusion`; `NoTornRead`; refines `AtomicBoard`; every call of `ipc.c` returns, unless a player has exited inside one (`EveryCallReturns`) |
| `shutdown` | server, 1 player, 2 signals, 2 writes in the handler | the handler writes alone; no IPC remains, every signal ends the server and its clients, each with the exceptions it names |
| `lobby_signals` | 3 connections, 3 seats, one user asks for the scores, two may leave | what the alarm can spoil and where (`NobodyJoinsAGame`, `EveryPlayerHasItsName`, `SignUpCounts`, `SeatHolderWasWelcomed`, `NoWildCall`, `OneHandEach`); seats in order; the alarm in lobbies only; broken games end (`BrokenGamesEnd`); lobbies move (`LobbyMoves`) |
| `ecart_input` | 3 cards of 5, lines of any length over 0..6, memory a position or not | `GivesWhatWasTyped`, `NoCardLost`, `RejectsOnlyBadLines` |
| `three_players` | 3 players, 2 suits of 2 and 2 Payoos, 2 tricks, 1 round | `OneTurn`, `CardConservation`, `PlaysAFullHand`, `EcartBackAfterAll`, refines `Game` |
| `game_live` | 2 players, 2 cards, 3 rounds, one request for the scores each | `ScoresAreEarned`, `ActsOnCurrentInfo`, `GamesStart`, `GamesFinish`, refines `Game` to its end |
| `late_comers` | 3 clients for 2 seats, one may leave at any moment and types one line unasked | `TypeOK`, `GameHasItsPlayers`, `DepartureEndsGame` |
| `departures` | 2 clients for 2 seats, both may leave at any moment, one types one line unasked | `SeatsAreFreed`; ecarts and rounds of a lobby after a cancelled game (`RoundOfNobody`) |

These end in a counterexample, and it is the code's (section 4):

| Run | Property that fails |
|---|---|
| `server_restarts` | `Exclusion` |
| `stale_ecart` | `EcartBackAfterAll` |
| `server_killed` | `ServerOutlivesGame` |
| `winner` | `WinnerHasFewestPoints` |

**Properties with an exception.** Several invariants say "always, unless the signal came
between these statements": 87, after its receive, for `SignUpCounts` and `NoWildCall`;
130 and 137 for `NobodyJoinsAGame`; the store of 137 and 142 for
`SeatHolderWasWelcomed`; 164 and 165 for `EveryPlayerHasItsName`; a reply's code and its
send (166 and 168, 776 and 777) for `OneHandEach`. `NoIpcRemains` has three exceptions:
a second signal, descriptors that are closed already, and a departed player who has been
written to. The exception is what the code gets wrong, named as narrowly as it can be;
the property says that it happens nowhere else. Each exception is reachable: without it
TLC finds a counterexample.

**Bounds.** `MaxPending`: two, one message's worth of reads per player, so that the
reads of two players and a write overlap in every way. `MaxLines`: lines typed unasked,
per user. `MaxRound`: no round beyond this one starts; one more than `Rounds`, so that a
game that ought to have ended is seen going on. `Shuffles`: one deal that mixes the
suits; who plays what is then free. Two players cannot tell left from right in the
exchange of ecarts; three can, hence `three_players`. Three clients with two seats make
refusals, retries and departures meet in `late_comers`; two seats are the least with
which a game starts. Three rounds in `game_live` pass the test `current_round == 3` from
both sides. `lobby_signals` has the three seats of the code, so that a shift moves two
players; a third connection can come while two play. `Quitters` are the clients that may leave: in
`lobby_signals` two of the three, on whichever seats they are, so that a departure meets
another one that is being served; in `shared_memory` one of the two, so that the other
reads on with a dead reader or waits behind it. What is proved of both holds for any number
of them. In `shutdown`, two signals nest once, and a third could only do
to the second handler what the second does to the first; two writes leave a moment
between them in which a reader takes the board. Five cards and three numbers give
`ecart_input` lines that are too short, exact and too long, with and without doublons,
and rejected after one, two, three and four numbers; its theorems are for all sizes.

**Symmetry** is used in `three_players` only: its clients are interchangeable and
it checks no liveness property. It does not hold where one of the clients may leave.

**Deadlock** is checked in no run: processes that have exited, a game that has ended
at every player, an ecart that was sent, and a semaphore that a dead player keeps are
legitimate ends of these systems. Waiting for ever is what the liveness properties
are about.

**Fairness.** Board: strong fairness of each `down`, since the kernel queues the waiters
of a System V semaphore first come first served; weak fairness of each step between two
semaphore operations and of a read a message asks for. The server is not obliged to
begin anything. The writer does not starve because players read in answer to messages,
and the server sends none while it waits. Game: weak fairness of the main loop, of a
pending `SIGALRM`, of the server's death (`Killed`), and of each player's steps, the
answers of a user included. Nobody is obliged to type unasked or to leave. `late_comers`
assumes the fairness of the server alone: the game of a player who has left is stopped
even if no other user ever answers; so does `departures`. Lobby: weak fairness of
`main`, of the alarm that is set, and of the user who was welcomed and types a name.
Shutdown: as for the board, and weak fairness of the lines of a handler; nobody is
obliged to send a signal.

## 4. What the counterexamples say

* `server_restarts`: a client is in the middle of a read, with `rc` 1 and `mutex_mem` 0, as
  it should be. `init_semaphores` of the new server sets `mutex_mem` to 1 under it, the
  next write takes the semaphore and copies while the client copies. The count is right;
  resetting `rc` as well would not help.
* `stale_ecart`: `clear_lobby` resets neither `one_ecart_received` nor
  `amount_ecart_received`; an ecart of a cancelled game completes those of the lobby. If the
  one player there plays the card it is asked for, its trick and its round are over; when it
  then leaves, a round starts for nobody, and `deal_cards` divides by zero (`serveur.c:442`).
* `server_killed`: a player leaves and two messages go to it before its end of file
  is served. `DepartureEndsGame` therefore allows the server's death.
* `winner`: `end_game` looks at the board before the last round is on it.

Behaviours of the models that break something and have no run of their own:

* A player's handler (`joueur.c:382`, "a clean exit") exits while the process holds
  `mutex_rc` or `mutex_mem`; without `SEM_UNDO` (`ipc.c:252`) the server waits for ever:
  the exception of `EveryCallReturns`. The safety theorems hold all the same.
* The alarm on the statements of section 3: a player without cards, in a game that never
  ends, one without a name, one with two hands, a sign-up that is lost, a seat nobody will
  ever register, and an index past the end of `dispatcher`. The seat is lost because the
  handler broadcasts to a client that `add_client` has stored and not yet greeted.
* `SIGINT` inside `s_write_*` waits for its own process (`HandlerStuck`). Semaphores stay
  behind, against `README.md:11` of the repository, after a second, different signal, after
  one between a `close()` and the reset of `players[]`, and when a player who has left is
  written to twice, the second time by `main` or by the broadcast of the handler itself
  (`serveur.c:268`), which comes before `kill_ipcs`.
* A line with fewer than five numbers is accepted when older lines or the memory
  complete it, against `joueur.c:291`; an empty line ends the client.
* A line typed while waiting sends an ecart twice (`EcartBackAfterAll`), and the tricks
  of a cancelled game are counted in the next (`ScoresAreEarned`, with departures).
* `joueur.c:203` shows the name of player `i + 1` with an ecart that, by
  `serveur.c:230`, comes from player `i - 1`.

## 5. Proofs

Each theorem is `Spec => []P` for a property `P` that a run checks, unless said
otherwise, and TLC has checked each inductive invariant on the instances of section 3.

| Module | For any | Theorems |
|---|---|---|
| `SharedMemory_proofs` | number of players, data, bound on reads | `Invariance` (`Inv`), `TypeCorrectness` (`TypeOK`), `MutualExclusion` (`Exclusion`), `ReadsAreWhole` (`NoTornRead`), `Refinement` (`ImplementsAtomicBoard`) |
| `Shutdown_proofs` | the same, and set of signals and number of writes in the handler | `ShutdownTypeOKThm`, `HandlerWritesAloneThm`, `NoIpcRemainsThm` |
| `Lobby_proofs` | number of connections, size of `players[]` from two up | `AlarmInLobbyOnlyThm`, `NoWildCallThm`, `NobodyJoinsAGameThm`, `EveryPlayerHasItsNameThm`, `TypeOKThm`, `SeatsInOrderThm`, `SignUpCountsThm`, `SeatHolderWasWelcomedThm`, `OneHandEachThm` |
| `EcartInput_proofs` | size of ecart and deck, content of the memory, lines | `GivesWhatWasTypedThm`, `RejectsOnlyBadLinesThm`, `EcartTypeOKThm`, `NoCardLostThm` |
| `Papayoo_proofs` | number of clients and seats, departures, lines typed unasked; any trick | `GameHasItsPlayersThm`; `HighestOfSuitTakes`, about the operator `Loser` |
| `Papayoo_proofs`, second part | number of clients, seats, tricks, rounds, without disturbance | `OneTurnThm`, `ActsOnCurrentInfoThm`, `EcartBackAfterAllThm` |
| `Messages_proofs` | the same, and deck, deal and size of the ecart | `TypeOKThm` |
| `Hands_proofs` | the same | `PlaysAFullHandThm`, `ScoresAreEarnedThm`, `CardConservationThm` |
| `PapayooGame_proofs` | the same | `ImplementsGameThm`, the refinement of `Game` |

A theorem `XThm` states `X`. The assumptions are those the modules name: finitely many
clients of which the server is none, at least two seats, natural numbers as bounds, an ecart
no larger than the deck.

### The board

`Exclusion` is not inductive: it says nothing of who holds the semaphores. `Inv`
adds it in three parts. `RcExact`: `rc` is the cardinality of the set of processes
between their increment and their decrement, and at most one process is on a line that
`mutex_rc` protects, so that the test of line 26 or 31 sees the value its process just
stored. `MemOwned`: `mutex_mem` is 0 while the readers as a group, or the writer, own
the board, and never do both; the group owns it when a reader is past line 26, or
behind a first reader, or is the last one and has not yet released it. `HalvesAgree`:
outside a write the halves of the board agree, in the middle of one the first half is
the new value, and a half-made copy agrees with the board. Each action has a lemma
with one step per part; the count uses the library's facts about cardinality. `TypeOK`
contains that both semaphores stay in {0, 1}: no `up` without its `down`. All of it
holds with players that exit on any line, since an exit changes no variable the
invariant speaks of.

*Refinement.* A write takes effect when its second half is stored, a read when its
second half is loaded; before that the register of `AtomicBoard` has the old value,
shown by the mapping `Value`. Every other step maps to a begin, a return or a
stutter. Loading the second half is an atomic read because `MemOwned` excludes a
write between the halves.

### The shutdown

Of `Inv` only `Locks` (the types, `RcExact`, `MemOwned`) carries over: a handler that
writes over an interrupted `s_write_*` or dies in the middle of its own leaves halves that
disagree. `LocksNext` is stated for any step of the board's processes and used by both
modules. `ShutdownInv` adds `Handlers` (the stack: one handler for each signal at most,
and a handler that is not done with `clear_lobby` has a write to make), `HandlerOwns` (a
handler past its `down` has the board for itself: the semaphore was free, and no line of
the interrupted code, nor of a reader, can take it from there), and `Teardown` (only one
handler ever gets past the close of the listening socket, and what is removed is what that
one has removed). The last is what makes `NoIpcRemains` inductive: any number of
signals may come, but every other handler ends at its `close`. A write that raises `SIGPIPE`
needs a player in `written`, whoever makes it, and `HangUp`, before `kill_ipcs`, leaves
nobody there (`SeatSteps`, `Sending`, `DyingOfPipe`).

### The lobby

Five invariants, each on top of the ones before. `LInv` ties the alarm and the message
to where `main` is: between the count of `add_client` and its test for the first
client the alarm may be missing, and only for the first client (`AlarmSet`); if a game
starts in there, two were seated already, so that line 138 does not set an alarm in a
game (`Counts`); the code of a hand is in `mess` at the dispatcher only if the alarm
put it there, since no user's message has it (`Wild`).

`SInv` is about the array. Beyond `amount_players` it is clean, so that a new client
is not registered under the flag of one who left; this fails only while
`remove_player` works, or, when it ends a game, until `clear_lobby` (`CleanBeyond`).
In particular the `players[3]` that the shift copies in is as good as clean in a lobby
and `clear_lobby` removes it in a game. Whoever is registered has a socket and a name,
but for the lines between the two stores (`Registered`). `Hands` then follows when the
alarm starts a game: all are registered, hence all have sockets, and those are the
hands.

`WInv` is the greeting: the client that `add_client` is about to greet sits on the last
seat, where every broadcast of the alarm finds it. If it still waits for its greeting at
line 142, the alarm has not come since line 137 and `mess.code` is the `C_OK` of line 140.

`DInv` is about the hands: at the send of a reply the code of a hand is in `mess` only if
the game started right there; at the broadcast of line 345 it may have started as well,
but then line 346 sees it and the game does not outlive `remove_player`. That the start
itself deals to different sockets is `OInv`.

`OInv` is who
holds which seat. `SeatsInOrder` excuses the lines of `remove_player`, and is therefore not
inductive; what holds on every line is that all seats but one, the `Hole`, have different
sockets. The hole is the seat `add_client` has counted and not stored, or the seat the
shift has emptied and not yet filled; it moves up with the loop and leaves the array at
the new count. A socket `add_client` is about to store holds no seat (`Accepted`). With
that, the place of a sign-up can be followed (`SignedUp`): the flag, the socket, the
dispatcher with the index of the seat, or lost to the alarm.

### The parsing of an ecart

After `n` numbers the first `n` integers are those numbers, and doublons in an array the
line has filled are doublons in the line: `GivesWhatWasTyped` and `RejectsOnlyBadLines`.
For `NoCardLost`, `remove_ecart` is a bijection: the index `idx` at which the loop stores a
card that stays is the number of those before it, which is injective, and by counting also
surjective, from the cards that stay onto the new indexes (`IdxIsInjective`,
`IdxIsSurjective`). With as many different positions in the array as the ecart has cards,
those that stay are all the others (`KeptSize`). An integer of the array is a position or what
`malloc` left (`Sources`), which is the exception of the property.

### The game

`HighestOfSuitTakes`: the loop of `end_turn` is a recursive function of the number of cards it
has looked at. That it returns a card of the suit that was led, higher than all others of
that suit, is shown by the smallest number for which it would not be so.

`GameHasItsPlayers` rests on `Seated`: the shape of the server's records, and the table. It
holds whoever leaves and whatever is typed, since a game starts only when all seats are
registered and `remove_player` ends the game in the same handler.

`UInv` of `Papayoo_proofs` carries the three properties of the turns. They are about who may
send next, so the invariant counts messages, wherever they are. For each client:

* `Wire`: how far its connection is, against its seat and its `pc`, and which final messages
  may be in its queue.
* `Duties`: it owes the ecart exactly once (cards on their way, the user choosing, or the
  ecart on its way) until it is in `hist.given`; and it has the turn exactly once (the
  question on its way, the user choosing, or the card on its way) when it is the player the
  trick calls for, and otherwise not.
* `Fresh`: the information of the round comes directly before its cards, and from then on all
  the player knows, and will be told, is current; the card it sends carries its index.
* `Informed`: an ecart reaches only a player that knows how many play, so that
  `DivisionByZero` is not reached.

On the server's side, `Distinct` (a seat or a place in the backlog each) and `Phases`: the
counters of a phase are at rest in the others, and while the ecarts come in
`amount_ecart_received` is the cardinality of `hist.given`. This last fact is why the test
by equality in `receive_ecart_from_player` is right, and `EcartBackAfterAll` follows from it;
`OneTurn` is the second half of `Duties`, summed up for all clients.

The theorems assume `Undisturbed`: no client quits and no line typed unasked repeats the last
message (Enter and `s` are allowed, and so are refused clients and several games' worth of
rounds). The assumption is needed, and the code is the reason: a departure leaves the
counters of a cancelled game behind (`stale_ecart`), a repeated line is a second ecart or
a second card (section 4). `GameHasItsPlayersThm` does not assume it.

### The cards and the points

What a player owns is spread over both programs and the queues between them. Four
operators of `Papayoo` collect it: `HandOf` (a deal on its way, the deck in the client once
the deal has arrived, ecarts on their way back), `EcartOf` (given, on its way or with the
server), `PlayedBy` (a card on its way to the board) and `PileOf` (the tricks in the client and on
their way to it). Each property is proved from what every step does to these four; that is
the table of lemmas whose names end in `Roles`: one for each step of a client
(`NotesRoles`, `GivesRoles`, `PlaysRoles`, ...) and of the server (`DealRoles`, `EcartTaken`,
`BackRoles`, `TrickGoesRoles`, `TrickOverRoles`, ...). `UInv` is not enough for them, as it
counts messages and says nothing of what is in them, nor of their order. There are four
further invariants, each inductive together with those before it:

* `TInv` (`Messages_proofs`): the type of everything a message can carry. `TypeOK` follows, with
  `UInv` for the counters; that no more cards lie on the board than there are seats is
  not a matter of types but of turns.
* `RInv`: the order. A deal reaches a client before anything that is added to it
  (`Newcomer`: nothing of a round is in the queue behind which the deal could overtake it); no
  trick is in a queue behind the question for the score, nor in a pile before the first trick
  is over (`Piles`); no ecart of a player is still open when it plays (`Late`). And the counters:
  the cards on the board were put there by the players from `current_player_turn` on, in the
  order of the seats, and while the scores come in, `amount_scores_updated` is the number of
  players whose score is neither asked for nor on its way. The tests by equality in
  `receive_played_card` and `update_score` are right because of that.
* `LInv` (`Hands_proofs`): how many cards a player has. Before the tricks a hand is the cards
  dealt less the ecart; in the tricks, the hand, the tricks that are over, the card on its way and
  the one on the board add up to the cards dealt. `PlaysAFullHand` follows. It assumes
  `EnoughCards`: a round has no more tricks than each player has cards, which holds with
  3 tricks, 60 cards and 3 seats and would fail with other values of the macros.
* `EInv`: score on the board, reports under way and the worth of the pile make up
  `hist.earned`, for every player. The step that matters is the end of a trick, where the points go
  to the client as cards and to `hist.earned` as a number: `PointsGlue` shows that
  the points of two piles together are the sum of the points of each.
* `CInv`: all places (`Places`: four for each player, and the board) hold different cards, and
  together as many as were dealt. A step moves cards between places; the lemma `Moved` says
  when such a move keeps all that: some places keep their cards, one gives up a part, one
  receives it. `Split` says that a queue of cards is two others shuffled together, which is what
  `send_ecart` and `play_card` do to a hand; `DealHeld` is the deal, where the place of the card
  `k` of player `s` in the deck, `s * m + k`, is shown to be a bijection (`Positions`, `PositionOf`).

Sums and the cards in a queue are recursive functions (`SumOf`, `CardsIn`), whose steps the
prover can unfold. What holds of all their values is shown as for `Loser`: the numbers up to
which it holds contain 0 and with each number the next (`UpTo`).

### The refinement

`ImplementsGameThm` says that every step of `Papayoo` is a step of `Game`, or changes nothing
that a player sees. Seen from the players there are ten things to follow (the phase, the number of
players, the round, the papayoo, hands, ecarts, leader, trick, tricks and totals). `Seen`
names their values in a state, and the proof has three layers:

* What each action of `Game` does to such values, with no server in sight (`DealSeen`, `GiveSeen`,
  `ExchangeSeen`, `PlaySeen`, `NextTrickSeen`, `EndRoundSeen`, `EndGameSeen`, ...).
* What the players see of a state of the program (`Table`, `TableSeen`): the totals are
  `hist.earned` by `EInv`; the trick is the board followed by what the player who has the turn has
  played (`TrickIs`).
* Every step of the program. A card is played in `Game` when the user has chosen it
  (`PlayedSeen`); when it reaches the board nothing happens in `Game` (`TrickGoesSeen`) unless it is
  the last of the trick: then the server judges exactly the trick that the players see
  (`TrickWon`, with `HighestOfSuitTakes` and the order of the cards from `RInv`), and the step is
  `NextTrick`, `EndRound` or `EndGame`. The other messages are not seen (`QuietSeen`, `HiddenSeen`).

All the invariants above are needed: `CInv` for a hand to lose exactly the card that is played,
`LInv` for an ecart to be there when the ecarts are exchanged, `EInv` for the totals, `UInv` and
`RInv` for turns and order. `KInv` is added for the rounds: `current_round` is 0 in the lobby, and
another round follows only before the last.

### Only model-checked

* Liveness: fairness and `ENABLED` are outside the prover.
* The properties that a run shows violated.

## 6. Not modelled, and why

* **A `semop` interrupted by `SIGALRM`** (`EINTR`, `ipc.c:254`): the board and the alarm
  are in different modules. In a lobby, the only place with an alarm, the server comes to a
  `semop` only for a message that was sent by mistake.
* **Descriptors that leak** on every refused connection: connections are used again.
* **`show_pli`**: the relation between its two reads.
* **Display, arguments, lock file, log file, Makefile**: no later effect.
* **Partial transfers and full buffers** of TCP: structs of a kilobyte on one host.

## 7. Plan

Order: what everything rests on first, then the game, then the finer interleavings.

1. Done: `AtomicBoard`, `SharedMemory` and its proofs.
2. Done: `Cards`, `Network`, `State`, `Server`, `Client`, `Papayoo` and the runs above.
3. Done: `Lobby` and its proofs; `Shutdown`; `EcartInput` and its proofs; `Game`, and
   `PapayooGame`, which shows that `Papayoo` without departures refines it.
4. Done: every invariant of `SharedMemory`, `Shutdown`, `Lobby`, `EcartInput` and `Papayoo` as a
   theorem.
5. Done: both refinements as theorems. Next: `shuffle_deck` keeps a permutation.
6. `ShowPli` on `SharedMemory`: the cards shown against their number.
7. Departures in `Game`: a cancelled game as a step, and which variables survive it.
