------------------------------- MODULE Typing -------------------------------
(***************************************************************************)
(* One game from the keys to the ranking: what GameScreen.cpp records of   *)
(* the keys of its player and sends, what Room::process_input of room.cpp  *)
(* counts of it, and how Room::get_rankings orders the players when        *)
(* on_input of server.cpp finds that the game is over.                     *)
(*                                                                         *)
(* A behaviour begins when start_game has run and game_init is on its way. *)
(* Each connection has a thread of its own and no lock covers a room, so   *)
(* on_input is taken apart where another thread can come between: the test *)
(* for a running game, the scoring, the test for its end, the look at each *)
(* slot for the ranking, its announcement, and end_game.                   *)
(*                                                                         *)
(* Abstractions.  wpm is left out, accuracy is the pair of counts it is    *)
(* computed from.  A letter stands for a character other than space.  The  *)
(* game_init of an open screen stays in AppState (ClientViews has what     *)
(* clears it).  No player has an unfinished training session, which takes  *)
(* words before the arena does (server.cpp:491-656, see Arena).  A seat is *)
(* taken or left in one step (RoomThreads has the accesses) and a player   *)
(* keeps its slot, so that slots are named by their players; is_game_ended *)
(* looks at all slots at once.  Who may start a game and what a restart    *)
(* does to it is the subject of RoomServer and Arena; here a player that   *)
(* leaves its seat or takes one changes who is ranked.                     *)
(***************************************************************************)
EXTENDS Integers, SequencesExt

CONSTANTS
    Players,    \* the clients, seated when the game starts
    Letters,
    Words,      \* paragraph_words_
    Duration,   \* game_duration_ms_
    MaxTime,    \* bound: the clock stops here
    MaxKeys,    \* bound: keys a player presses
    MaxJoins    \* bound: seats taken while the game runs

Backspace == "backspace"

ASSUME TypingAssumption ==
    /\ IsFiniteSet(Players)
    /\ Letters # {}
    /\ Backspace \notin Letters
    /\ Words \in Seq(Seq(Letters) \ {<<>>})
    /\ Words # <<>>
    /\ {Duration, MaxKeys, MaxJoins} \subseteq Nat
    /\ MaxTime \in Nat \ {0}

VARIABLES
    clock,       \* the time, the same on all machines
    started,     \* Room::game_started_
    seated,      \* whose slots are occupied
    metrics,     \* Room::player_metrics_, the default where it has no entry
    handler,     \* per player: where the thread of its connection is in on_input
    rankings,    \* the entries of the last game_end sent, in its order
    late,        \* history, per player: its words scored after the time was over
    joins,       \* history: how many seats were taken
    screen,      \* per player: its game screen
    inputs,      \* per player: input messages on their way to the server
    hand,        \* history, per player: what it has done at the keyboard
    committed    \* history, per player: the same for each word it completed

roomVars == <<started, seated, metrics, handler, rankings, late, joins>>
playerVars == <<screen, inputs, hand, committed>>
vars == <<clock, roomVars, playerVars>>

TotalWords == Len(Words)

\* When start_game ran, on every clock.
StartTime == 1

Char(ch, t) == [key |-> ch, time |-> t]
CharEvent == [key : Letters \cup {Backspace}, time : Nat]

\* PlayerMetrics{}; correct and total are the counts of characters.
NoMetrics == [word |-> 0, latest |-> 0, correct |-> 0, total |-> 0]

\* A thread between two messages.  On the way it has looked at the slots in
\* passed and has made these entries of rankings.
Idle == [at |-> "idle", passed |-> {}, entries |-> {}]

\* local_game_start, currentWordIndex, playerInput and currentWordCharEvents
\* of a screen that is open; the other two are no screens yet and no more.
NewScreen(now) == [at |-> "open", opened |-> now, word |-> 0, input |-> <<>>, events |-> <<>>]
Unopened == [NewScreen(0) EXCEPT !.at = "unopened"]
Closed == [NewScreen(0) EXCEPT !.at = "closed"]
OnScreen(p) == screen[p].at = "open"

\* Keys pressed, letters among those since the last word, time of the last.
NoKeys == [keys |-> 0, struck |-> 0, last |-> 0]

Init ==
    /\ clock = StartTime
    /\ started = TRUE
    /\ seated = Players
    /\ metrics = [p \in Players |-> NoMetrics]
    /\ handler = [p \in Players |-> Idle]
    /\ rankings = <<>>
    /\ late = [p \in Players |-> 0]
    /\ joins = 0
    /\ screen = [p \in Players |-> Unopened]
    /\ inputs = [p \in Players |-> <<>>]
    /\ hand = [p \in Players |-> NoKeys]
    /\ committed = [p \in Players |-> <<>>]

-----------------------------------------------------------------------------
(* The game screen.                                                          *)

\* game_init arrives, any time after it was sent: onEnter takes the local
\* clock as that of the start.
OnEnter(p) ==
    /\ screen[p].at = "unopened"
    /\ screen' = [screen EXCEPT ![p] = NewScreen(clock)]
    /\ UNCHANGED <<clock, roomVars, inputs, hand, committed>>

\* game_start_time + local_elapsed
EventTime(p) == StartTime + (clock - screen[p].opened)

\* SDL_TEXTINPUT: a letter is appended, right or wrong.
Type(p) ==
    /\ OnScreen(p)
    /\ hand[p].keys < MaxKeys
    /\ \E ch \in Letters :
          screen' = [screen EXCEPT ![p].input = Append(@, ch),
                                   ![p].events = Append(@, Char(ch, EventTime(p)))]
    /\ hand' = [hand EXCEPT ![p] = [keys |-> @.keys + 1, struck |-> @.struck + 1, last |-> clock]]
    /\ UNCHANGED <<clock, roomVars, inputs, committed>>

\* Mutant: a backspace is not sent.
Erase_Unrecorded(p) ==
    /\ OnScreen(p)
    /\ hand[p].keys < MaxKeys
    /\ screen[p].input # <<>>
    /\ screen' = [screen EXCEPT ![p].input = Front(@)]
    /\ hand' = [hand EXCEPT ![p] = [keys |-> @.keys + 1, struck |-> @.struck, last |-> clock]]
    /\ UNCHANGED <<clock, roomVars, inputs, committed>>

\* Backspace on an empty input is not recorded.
Erase(p) ==
    /\ OnScreen(p)
    /\ hand[p].keys < MaxKeys
    /\ screen[p].input # <<>>
    /\ screen' = [screen EXCEPT ![p].input = Front(@),
                                ![p].events = Append(@, Char(Backspace, EventTime(p)))]
    /\ hand' = [hand EXCEPT ![p] = [keys |-> @.keys + 1, struck |-> @.struck, last |-> clock]]
    /\ UNCHANGED <<clock, roomVars, inputs, committed>>

InputMessage(s) == [word |-> s.word, events |-> s.events]

\* Space sends the word when it is right, and only then goes on.
Space(p) ==
    /\ OnScreen(p)
    /\ screen[p].word < TotalWords
    /\ screen[p].input = Words[screen[p].word + 1]
    /\ inputs' = [inputs EXCEPT ![p] = Append(@, InputMessage(screen[p]))]
    /\ screen' = [screen EXCEPT ![p].word = @ + 1, ![p].input = <<>>, ![p].events = <<>>]
    /\ committed' = [committed EXCEPT
           ![p] = Append(@, [struck |-> hand[p].struck, time |-> hand[p].last - screen[p].opened])]
    /\ hand' = [hand EXCEPT ![p].struck = 0]
    /\ UNCHANGED <<clock, roomVars>>

\* Escape, or the match result that replaces the screen, for good.
Close(p) ==
    /\ OnScreen(p)
    /\ screen' = [screen EXCEPT ![p] = Closed]
    /\ UNCHANGED <<clock, roomVars, inputs, hand, committed>>

-----------------------------------------------------------------------------
(* The room.                                                                 *)

\* typed_word once the events have been played back.
Replay[events \in Seq(CharEvent)] ==
    IF events = <<>> THEN <<>>
    ELSE LET word == Replay[Front(events)]
             key == Last(events).key
         IN  IF key # Backspace THEN Append(word, key)
             ELSE IF word = <<>> THEN word ELSE Front(word)

\* How many letters of a word stand where they stand in the target.
Matching(word, target) ==
    Cardinality({i \in DOMAIN word \cap DOMAIN target : word[i] = target[i]})

LettersIn(events) == Cardinality({i \in DOMAIN events : events[i].key # Backspace})

\* Mutant: the time of a word is that of its first key.
ProcessInput_FirstTime(m, msg) ==
    [word    |-> Max({m.word, msg.word + 1}),
     latest  |-> IF msg.events = <<>> THEN m.latest ELSE Head(msg.events).time,
     correct |-> m.correct + Matching(Replay[msg.events], Words[msg.word + 1]),
     total   |-> m.total + LettersIn(msg.events)]

\* Mutant: words are added up instead of taking the word completed.
ProcessInput_Counts(m, msg) ==
    [word    |-> m.word + msg.word + 1,
     latest  |-> IF msg.events = <<>> THEN m.latest ELSE Last(msg.events).time,
     correct |-> m.correct + Matching(Replay[msg.events], Words[msg.word + 1]),
     total   |-> m.total + LettersIn(msg.events)]

\* Room::process_input, and the same for a training session.
ProcessInput(m, msg) ==
    [word    |-> Max({m.word, msg.word + 1}),
     latest  |-> IF msg.events = <<>> THEN m.latest ELSE Last(msg.events).time,
     correct |-> m.correct + Matching(Replay[msg.events], Words[msg.word + 1]),
     total   |-> m.total + LettersIn(msg.events)]

AllFinished == \A p \in seated : metrics[p].word >= TotalWords
TimeOver == clock - StartTime >= Duration

\* Mutant: the game lasts one moment longer than its duration.
IsGameEnded_After == started /\ (clock - StartTime > Duration \/ AllFinished)

IsGameEnded == started /\ (TimeOver \/ AllFinished)

\* More words first, then the earlier latest time; std::sort may leave equal
\* players in any order.
Ahead(m, n) == m.word > n.word \/ (m.word = n.word /\ m.latest < n.latest)

\* Room::get_rankings puts the entries it has made in order.
GetRankings(entries) ==
    {r \in [1 .. Cardinality(entries) -> entries] :
        /\ IsInjective(r)
        /\ \A i, j \in DOMAIN r : i < j => ~Ahead(r[j], r[i])}

Goes(p, place) == handler' = [handler EXCEPT ![p].at = place]

\* on_input: a game that is not running ignores the message; otherwise it is
\* scored next (server.cpp:659-662).
TakeInput(p) ==
    /\ handler[p].at = "idle"
    /\ inputs[p] # <<>>
    /\ IF started /\ p \in seated
       THEN Goes(p, "score") /\ UNCHANGED inputs
       ELSE inputs' = [inputs EXCEPT ![p] = Tail(@)] /\ UNCHANGED handler
    /\ UNCHANGED <<clock, started, seated, metrics, rankings, late, joins, screen, hand, committed>>

\* The call of process_input: the clock is not looked at.
ScoreInput(p) ==
    /\ handler[p].at = "score"
    /\ inputs' = [inputs EXCEPT ![p] = Tail(@)]
    /\ metrics' = [metrics EXCEPT ![p] = ProcessInput(@, Head(inputs[p]))]
    /\ late' = [late EXCEPT ![p] = IF TimeOver THEN @ + 1 ELSE @]
    /\ Goes(p, "check")
    /\ UNCHANGED <<clock, started, seated, rankings, joins, screen, hand, committed>>

CheckEnd(p) ==
    /\ handler[p].at = "check"
    /\ Goes(p, IF IsGameEnded THEN "rank" ELSE "idle")
    /\ UNCHANGED <<clock, started, seated, metrics, rankings, late, joins, playerVars>>

\* What a thread may read of the metrics of q: while the thread of q is in
\* process_input, each number as it was or as it will be.
Entries(q) ==
    LET entry(word, latest, whole) ==
            [player |-> q, word |-> word, latest |-> latest, whole |-> whole]
        old == metrics[q]
        new == ProcessInput(old, Head(inputs[q]))
    IN  IF handler[q].at = "score"
        THEN {entry(w, t, FALSE) : w \in {old.word, new.word}, t \in {old.latest, new.latest}}
        ELSE {entry(old.word, old.latest, TRUE)}

\* The loop of get_rankings looks at the slot of q.
ReadSlot(p, q) ==
    /\ handler[p].at = "rank"
    /\ q \notin handler[p].passed
    /\ \E entry \in Entries(q) :
          handler' = [handler EXCEPT
              ![p].passed = @ \cup {q},
              ![p].entries = IF q \in seated THEN @ \cup {entry} ELSE @]
    /\ UNCHANGED <<clock, started, seated, metrics, rankings, late, joins, playerVars>>

\* game_end is sent; several threads may come to send one.
Announce(p) ==
    /\ handler[p].at = "rank"
    /\ handler[p].passed = Players
    /\ rankings' \in GetRankings(handler[p].entries)
    /\ Goes(p, "end")
    /\ UNCHANGED <<clock, started, seated, metrics, late, joins, playerVars>>

EndGame(p) ==
    /\ handler[p].at = "end"
    /\ started' = FALSE
    /\ handler' = [handler EXCEPT ![p] = Idle]
    /\ UNCHANGED <<clock, seated, metrics, rankings, late, joins, playerVars>>

OnInput(p) ==
    \/ TakeInput(p)
    \/ ScoreInput(p)
    \/ CheckEnd(p)
    \/ \E q \in Players : ReadSlot(p, q)
    \/ Announce(p)
    \/ EndGame(p)

\* exit_room of a player back in the lobby, after what it had sent before:
\* remove_player erases its metrics.
OnExitRoom(p) ==
    /\ handler[p].at = "idle"
    /\ p \in seated
    /\ screen[p].at = "closed"
    /\ inputs[p] = <<>>
    /\ seated' = seated \ {p}
    /\ metrics' = [metrics EXCEPT ![p] = NoMetrics]
    /\ UNCHANGED <<clock, started, handler, rankings, late, joins, playerVars>>

\* join_room while the game runs: no game_init, no entry of metrics.
OnJoinRoom(p) ==
    /\ handler[p].at = "idle"
    /\ joins < MaxJoins
    /\ seated # {}
    /\ p \notin seated
    /\ seated' = seated \cup {p}
    /\ joins' = joins + 1
    /\ UNCHANGED <<clock, started, metrics, handler, rankings, late, playerVars>>

Tick ==
    /\ clock < MaxTime
    /\ clock' = clock + 1
    /\ UNCHANGED <<roomVars, playerVars>>

Screen(p) == OnEnter(p) \/ Type(p) \/ Erase(p) \/ Space(p) \/ Close(p)

\* Once the game is over only what is under way is looked at.
Next ==
    \/ \E p \in Players : OnInput(p)
    \/ /\ started
       /\ Tick \/ \E p \in Players : Screen(p) \/ OnExitRoom(p) \/ OnJoinRoom(p)

Spec == Init /\ [][Next]_vars

-----------------------------------------------------------------------------
(* Properties.                                                               *)

Metrics == [word : 0 .. TotalWords, latest : Nat, correct : Nat, total : Nat]
Screens == [at : {"unopened", "open", "closed"}, opened : Nat, word : 0 .. TotalWords,
            input : Seq(Letters), events : Seq(CharEvent)]
RankingEntries == [player : Players, word : 0 .. TotalWords, latest : Nat, whole : BOOLEAN]
Handlers == [at : {"idle", "score", "check", "rank", "end"}, passed : SUBSET Players,
             entries : SUBSET RankingEntries]
InputMessages == [word : 0 .. TotalWords - 1, events : Seq(CharEvent)]

\* Every variable keeps its type: above all no count of words leaves the paragraph.
TypeOK ==
    /\ clock \in StartTime .. MaxTime
    /\ started \in BOOLEAN
    /\ seated \subseteq Players
    /\ metrics \in [Players -> Metrics]
    /\ handler \in [Players -> Handlers]
    /\ rankings \in Seq(RankingEntries)
    /\ late \in [Players -> Nat]
    /\ joins \in 0 .. MaxJoins
    /\ screen \in [Players -> Screens]
    /\ inputs \in [Players -> Seq(InputMessages)]
    /\ hand \in [Players -> [keys : 0 .. MaxKeys, struck : Nat, last : Nat]]
    /\ committed \in [Players -> Seq([struck : Nat, time : Nat])]

SumOf[s \in Seq(Nat)] == IF s = <<>> THEN 0 ELSE SumOf[Front(s)] + Last(s)

\* Letters of the first n words, and of the keys pressed for the first n of done.
LettersUpTo(n) == SumOf[[i \in 1 .. n |-> Len(Words[i])]]
StruckUpTo(done, n) == SumOf[[i \in 1 .. n |-> done[i].struck]]

\* What the server counts of a player is what the player did: every letter of
\* the words it has scored is correct, since the screen sends no other word
\* and its events play back to it, and every letter struck is in the total,
\* those erased included (GameScreen.cpp:62-92, room.cpp:163-195).
ScoredAsTyped ==
    \A p \in seated :
        LET w == metrics[p].word
        IN  /\ w <= Len(committed[p])
            /\ metrics[p].correct = LettersUpTo(w)
            /\ metrics[p].total = StruckUpTo(committed[p], w)

\* The order announced is fair to slow deliveries, and to players whose words
\* are scored while another thread makes it: a player is ahead of another
\* with fewer words in the announcement, or with as many but the last of them
\* completed later, by the time since its own screen opened, whenever
\* game_init and the inputs arrived (room.cpp:238-262, GameScreen.cpp:110).
\* Excepted are entries read while their word was being scored.
RankedFairly ==
    \A i, j \in DOMAIN rankings :
        LET a == rankings[i]
            b == rankings[j]
            time(e) == committed[e.player][e.word].time
        IN  i < j /\ a.whole /\ b.whole =>
                \/ a.word > b.word
                \/ a.word = b.word /\ (a.word = 0 \/ time(a) <= time(b))

\* Of the words of a player that are scored after the time is over there is at
\* most one, in every order of the threads: several threads may be past the
\* test for a running game when the first of them ends it, but each of them
\* looks at the clock before it takes its next word (server.cpp:660, :673, :706, :729).
OneLateWordEach == \A p \in Players : late[p] <= 1
=============================================================================
