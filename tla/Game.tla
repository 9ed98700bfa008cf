-------------------------------- MODULE Game --------------------------------
(***************************************************************************)
(* The game of Papayoo as its players see it: nothing of messages, of      *)
(* sockets or of counters.  It is what serveur.c and joueur.c together     *)
(* promise for a game that nobody leaves (see PapayooGame).                *)
(*                                                                         *)
(* Players are numbered from 0; player p gives its ecart to player p + 1   *)
(* and is followed by it in a trick.                                       *)
(***************************************************************************)
EXTENDS Cards, Integers, FiniteSets

CONSTANTS MAX_PLAYERS, AMOUNT_PLI, Rounds

VARIABLES phase,    \* "lobby", "ecarts", "tricks" or "scores"
          n,        \* the number of players
          round, papayoo,
          hands,    \* per player, the set of its cards
          ecarts,   \* per player, the cards it has given and nobody has yet
          leader, trick,
          tricks,   \* tricks taken in this round
          total     \* per player, the points it has taken in this game

vars == <<phase, n, round, papayoo, hands, ecarts, leader, trick, tricks, total>>

Players == 0..n - 1
Next1(p) == (p + 1) % n

InLobby == /\ phase = "lobby" /\ n = 0 /\ round = 0 /\ papayoo = 0
           /\ hands = <<>> /\ ecarts = <<>> /\ leader = 0 /\ trick = <<>>
           /\ tricks = 0 /\ total = <<>>

Init == InLobby

\* Everybody gets as many cards as everybody else, and no card comes twice.
Deal(m) ==
  /\ phase' = "ecarts"
  /\ papayoo' \in Suits
  /\ hands' \in [0..m - 1 -> SUBSET Card]
  /\ \A p \in 0..m - 1 : Cardinality(hands'[p]) = DeckSize \div m
  /\ \A p, q \in 0..m - 1 : p # q => hands'[p] \cap hands'[q] = {}
  /\ ecarts' = [p \in 0..m - 1 |-> {}]
  /\ leader' = 0 /\ trick' = <<>> /\ tricks' = 0

StartGame == /\ phase = "lobby"
             /\ \E m \in 2..MAX_PLAYERS : /\ n' = m
                                          /\ Deal(m)
                                          /\ total' = [p \in 0..m - 1 |-> 0]
             /\ round' = 1

GiveEcart(p) == /\ phase = "ecarts" /\ ecarts[p] = {}
                /\ \E E \in SUBSET hands[p] :
                     /\ Cardinality(E) = EcartSize
                     /\ ecarts' = [ecarts EXCEPT ![p] = E]
                     /\ hands' = [hands EXCEPT ![p] = @ \ E]
                /\ UNCHANGED <<phase, n, round, papayoo, leader, trick, tricks, total>>

\* Nobody sees what it is given before everybody has given.
Exchange == /\ phase = "ecarts" /\ \A p \in Players : ecarts[p] # {}
            /\ phase' = "tricks"
            /\ hands' = [q \in Players |->
                           hands[q] \cup UNION {ecarts[p] : p \in {r \in Players : Next1(r) = q}}]
            /\ ecarts' = [p \in Players |-> {}]
            /\ UNCHANGED <<n, round, papayoo, leader, trick, tricks, total>>

\* Whose turn it is.
Turn == (leader + Len(trick)) % n

Play(p) == /\ phase = "tricks" /\ Len(trick) < n /\ p = Turn
           /\ \E card \in hands[p] : /\ trick' = Append(trick, card)
                                     /\ hands' = [hands EXCEPT ![p] = @ \ {card}]
           /\ UNCHANGED <<phase, n, round, papayoo, ecarts, leader, tricks, total>>

\* The player of the k-th card, and the one who has to take the trick: nobody
\* has played a higher card of the suit that was led.
PlayerOf(k) == (leader + k - 1) % n
Takes(k)    == /\ trick[k].type = trick[1].type
               /\ \A j \in DOMAIN trick :
                    trick[j].type = trick[1].type => trick[j].number <= trick[k].number

\* Player p takes the trick.
Taken(p) == /\ phase = "tricks" /\ Len(trick) = n
            /\ \E k \in DOMAIN trick : Takes(k) /\ p = PlayerOf(k)

NextTrick(p) ==
  /\ Taken(p)
  /\ tricks + 1 < AMOUNT_PLI
  /\ leader' = p /\ trick' = <<>> /\ tricks' = tricks + 1
  /\ total' = [total EXCEPT ![p] = @ + Points(trick, papayoo)]
  /\ UNCHANGED <<phase, n, round, papayoo, hands, ecarts>>

EndRound(p) ==
  /\ Taken(p)
  /\ tricks + 1 = AMOUNT_PLI /\ round < Rounds
  /\ phase' = "scores"
  /\ leader' = 0 /\ trick' = <<>> /\ tricks' = 0
  /\ total' = [total EXCEPT ![p] = @ + Points(trick, papayoo)]
  /\ UNCHANGED <<n, round, papayoo, hands, ecarts>>

StartRound == /\ phase = "scores"
              /\ Deal(n)
              /\ round' = round + 1
              /\ UNCHANGED <<n, total>>

EndGame(p) == /\ Taken(p)
              /\ tricks + 1 = AMOUNT_PLI /\ round = Rounds
              /\ InLobby'

Next == \/ StartGame \/ StartRound \/ Exchange
        \/ \E p \in Players : \/ GiveEcart(p) \/ Play(p)
                              \/ NextTrick(p) \/ EndRound(p) \/ EndGame(p)

Spec == Init /\ [][Next]_vars
=============================================================================
