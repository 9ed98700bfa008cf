---------------------------- MODULE PapayooGame ----------------------------
(***************************************************************************)
(* Papayoo implements Game.  The cards of a player are those in its client *)
(* and those on their way to it; an ecart has been given, a card played    *)
(* and points taken as soon as the user has chosen and the server has      *)
(* counted, whichever messages are still under way.                        *)
(***************************************************************************)
EXTENDS Papayoo

InGame == listening /\ srv.game_running /\ loop.pc # "sleep"

PhaseSeen == IF ~InGame THEN "lobby"
             ELSE IF srv.updating_score THEN "scores"
             ELSE IF InTricks THEN "tricks" ELSE "ecarts"

\* The card that is on its way to the board, if there is one, comes from the
\* player whose turn it is.
WhoseTurn == Player((srv.current_player_turn + board.pli_size) % amount_players)

TotalOf(i) == board.scores[i] + ReportedByNow(Player(i)) + EarnedThisRound(Player(i))

\* A number, and a value per player, of the game; none in the lobby.
OfGame(x)    == IF InGame THEN x ELSE 0
PerPlayer(f) == IF InGame THEN f ELSE <<>>

HandsSeen  == PerPlayer([i \in Present |-> ToSet(HandOf(Player(i)))])
EcartsSeen == PerPlayer([i \in Present |-> ToSet(EcartOf(Player(i)))])
TrickSeen  == IF PhaseSeen = "tricks" THEN CardsOnBoard \o PlayedBy(WhoseTurn) ELSE <<>>
TotalsSeen == PerPlayer([i \in Present |-> TotalOf(i)])

Abstract == INSTANCE Game WITH
  phase   <- PhaseSeen,
  n       <- OfGame(amount_players),
  round   <- OfGame(srv.current_round),
  papayoo <- OfGame(srv.papayoo),
  hands   <- HandsSeen,
  ecarts  <- EcartsSeen,
  leader  <- OfGame(srv.current_player_turn),
  trick   <- TrickSeen,
  tricks  <- OfGame(srv.amount_turn),
  total   <- TotalsSeen

\* The server and its clients, which share nothing but the order of each
\* connection, play the game: whoever is slow, nobody gives, plays or takes
\* out of turn, and hands, tricks and points are what the rules say.
ImplementsGame == Abstract!Spec
=============================================================================
