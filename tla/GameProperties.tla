--------------------------- MODULE GameProperties ---------------------------
(***************************************************************************)
(* What a command line makes of the games (src/src/games.c): the policy on *)
(* which games are accepted, and the properties of the anonymous ones.     *)
(* Each step parses one option; the lists are the sorted arrays and the    *)
(* linked list of the code, searched the way the code searches them.       *)
(*                                                                         *)
(* A game name is a number, its rank in the order of strcmp.               *)
(***************************************************************************)
EXTENDS CommandLine, SequencesExt

CONSTANTS
  Names,                \* game names, as their ranks
  BadNames,             \* those that are empty or hold a blank
  Protocols,
  Tags, NoTag,          \* heartbeat tags, NULL
  DarkPlaces,           \* the tag of the DarkPlaces protocol
  OptionNames,          \* those of option_strings
  BuiltIn               \* sequence of the built-in games and their updates

ASSUME GameAssumption ==
  /\ Names \subseteq Nat \ {0} /\ BadNames \subseteq Names
  /\ Protocols \subseteq Int
  /\ NoTag \notin Tags /\ DarkPlaces \in Tags

VARIABLES
  game_names,
  reject_when_known,
  game_properties_list,
  game_protocols,
  listed,               \* history: the policies and games of all lists so far
  claims                \* history: the game each protocol was last given to

gameVars == <<game_names, reject_when_known, game_properties_list, game_protocols,
              listed, claims>>

NoGame == 0

\* The tag DarkPlaces stays reserved to the games that send their name.
Properties == [name : Names, options : SUBSET OptionNames,
               alive : (Tags \ {DarkPlaces}) \cup {NoTag},
               dead  : (Tags \ {DarkPlaces}) \cup {NoTag}]
Assocs == [protocol : Protocols, game : Names]

----------------------------------------------------------------------------
(* The binary searches.  Positions are those of the C array, from 0.       *)

\* Mutant: "left < right" leaves the last candidate out.
Mutant_Find(keys, key) ==
  LET search[interval \in (0 .. Len(keys)) \X (-1 .. Len(keys) - 1)] ==
        LET left   == interval[1]
            right  == interval[2]
            middle == (left + right) \div 2
        IN  IF left >= right THEN [found |-> FALSE, index |-> left]
            ELSE IF keys[middle + 1] = key THEN [found |-> TRUE, index |-> middle]
            ELSE IF keys[middle + 1] > key THEN search[<<left, middle - 1>>]
            ELSE search[<<middle + 1, right>>]
  IN  search[<<0, Len(keys) - 1>>]

\* Where the key is, or where it belongs.
Game_Find(keys, key) ==
  LET search[interval \in (0 .. Len(keys)) \X (-1 .. Len(keys) - 1)] ==
        LET left   == interval[1]
            right  == interval[2]
            middle == (left + right) \div 2
        IN  IF left > right THEN [found |-> FALSE, index |-> left]
            ELSE IF keys[middle + 1] = key THEN [found |-> TRUE, index |-> middle]
            ELSE IF keys[middle + 1] > key THEN search[<<left, middle - 1>>]
            ELSE search[<<middle + 1, right>>]
  IN  search[<<0, Len(keys) - 1>>]

Game_FindAnonymous(protocols, protocol) ==
  Game_Find([i \in DOMAIN protocols |-> protocols[i].protocol], protocol)

----------------------------------------------------------------------------
(* The policy.                                                             *)

AddName(names, game) ==
  LET f == Game_Find(names, game)
  IN  IF f.found THEN names ELSE InsertAt(names, f.index + 1, game)

\* Mutant: the last list sets the policy.
Mutant_Agrees(policy) == TRUE

\* The first list sets the policy, the next ones must agree with it.
Agrees(policy) == game_names # <<>> => (policy = "reject") = reject_when_known

Game_DeclarePolicy(policy, games) ==
  IF policy \in {"accept", "reject"} /\ Agrees(policy)
    THEN /\ reject_when_known' = (policy = "reject")
         /\ game_names' = FoldLeft(AddName, game_names, games)
         /\ listed' = listed \cup {<<policy, game>> : game \in ToSet(games)}
         /\ status' = status
    ELSE /\ status' = "refused"
         /\ UNCHANGED <<game_names, reject_when_known, listed>>

\* The exclusive or of what Game_Find finds and reject_when_known.
Game_IsAccepted(game) == Game_Find(game_names, game).found # reject_when_known

----------------------------------------------------------------------------
(* The properties of a game.  A work record w holds the two lists while an *)
(* option is applied to them, and the status it has led to.                *)

Position(list, game) == SelectInSeq(list, LAMBDA p : p.name = game)

\* The game's entry, created at the head of the list when there is none.
Game_GetAnonymous(w, game) ==
  IF Position(w.list, game) # 0 THEN w
  ELSE IF game \in BadNames THEN [w EXCEPT !.status = "refused"]
  ELSE [w EXCEPT !.list =
          Cons([name |-> game, options |-> {}, alive |-> NoTag, dead |-> NoTag], @)]

Game_RemoveAllProtocols(w, game) ==
  [w EXCEPT !.protocols =
     FoldLeft(LAMBDA kept, assoc : IF assoc.game = game THEN kept ELSE Append(kept, assoc),
              <<>>, @)]

\* Mutant: a protocol number that is in the list already stays as it is.
Mutant_AddProtocol(w, game, protocol) ==
  LET f == Game_FindAnonymous(w.protocols, protocol)
  IN  IF f.found THEN w
      ELSE [w EXCEPT !.protocols =
              InsertAt(@, f.index + 1, [protocol |-> protocol, game |-> game])]

\* A number that another game has is taken from it.
Game_AddProtocol(w, game, protocol) ==
  LET f == Game_FindAnonymous(w.protocols, protocol)
      assoc == [protocol |-> protocol, game |-> game]
  IN  [w EXCEPT !.protocols = IF f.found THEN ReplaceAt(@, f.index + 1, assoc)
                              ELSE InsertAt(@, f.index + 1, assoc)]

\* Only the game that has the number can give it up.
Game_RemoveProtocol(w, game, protocol) ==
  LET f == Game_FindAnonymous(w.protocols, protocol)
  IN  IF ~ f.found THEN w
      ELSE IF w.protocols[f.index + 1].game # game THEN [w EXCEPT !.status = "refused"]
      ELSE [w EXCEPT !.protocols = RemoveAt(@, f.index + 1)]

\* hb_type is the field of the tag, "alive" or "dead".  The tag to be removed is
\* compared with one that may be missing: strcmp of a NULL pointer.
Game_UpdateHeartbeat(w, i, hb_type, value, remove) ==
  CASE remove /\ w.list[i][hb_type] = NoTag -> [w EXCEPT !.status = "undefined"]
    [] remove /\ w.list[i][hb_type] # NoTag ->
         IF w.list[i][hb_type] = value THEN [w EXCEPT !.list[i][hb_type] = NoTag] ELSE w
    [] ~ remove /\ (value = DarkPlaces \/ w.list[i][hb_type] # NoTag) ->
         [w EXCEPT !.status = "refused"]
    [] OTHER -> [w EXCEPT !.list[i][hb_type] = value]

Game_UpdateOption(w, i, name, remove) ==
  IF name \notin OptionNames THEN [w EXCEPT !.status = "refused"]
  ELSE [w EXCEPT !.list[i].options = IF remove THEN @ \ {name} ELSE @ \cup {name}]

\* An update names a property, an operator and the values between its commas.
HeartbeatType(prop) == IF prop = "heartbeat" THEN "alive" ELSE "dead"

ResetProperty(w, game, prop) ==
  LET i == Position(w.list, game)
  IN  CASE prop = "protocols" -> Game_RemoveAllProtocols(w, game)
        [] prop = "options"   -> [w EXCEPT !.list[i].options = {}]
        [] prop \in {"heartbeat", "flatline"} ->
             [w EXCEPT !.list[i][HeartbeatType(prop)] = NoTag]
        [] OTHER -> [w EXCEPT !.status = "refused"]

ApplyValue(w, game, u, value) ==
  LET i == Position(w.list, game)
      remove == u.op = "-="
  IN  IF w.status # "parsing" THEN w
      ELSE CASE u.prop = "protocols" ->
                  IF value \notin Protocols THEN [w EXCEPT !.status = "refused"]
                  ELSE IF remove THEN Game_RemoveProtocol(w, game, value)
                  ELSE Game_AddProtocol(w, game, value)
             [] u.prop = "options" -> Game_UpdateOption(w, i, value, remove)
             [] u.prop \in {"heartbeat", "flatline"} ->
                  Game_UpdateHeartbeat(w, i, HeartbeatType(u.prop), value, remove)
             [] OTHER -> [w EXCEPT !.status = "refused"]

Game_UpdateProperty(w, game, u) ==
  FoldLeft(LAMBDA v, value : ApplyValue(v, game, u, value),
           IF u.op = "=" THEN ResetProperty(w, game, u.prop) ELSE w,
           u.values)

\* The first property in error ends the option, and the program with it.
Game_UpdateProperties(w, game, updates) ==
  FoldLeft(LAMBDA v, u : IF v.status # "parsing" THEN v ELSE Game_UpdateProperty(v, game, u),
           Game_GetAnonymous(w, game), updates)

Game_InitProperties ==
  FoldLeft(LAMBDA w, b : Game_UpdateProperties(w, b.game, b.updates),
           [status |-> "parsing", list |-> <<>>, protocols |-> <<>>], BuiltIn)

\* An update is cut into values at the commas; a heartbeat's are tags.
AreUpdates(updates) ==
  /\ updates \in Seq(ToSet(updates))
  /\ \A u \in ToSet(updates) :
       /\ u.values \in Seq(ToSet(u.values))
       /\ u.prop \in {"heartbeat", "flatline"} => ToSet(u.values) \subseteq Tags

\* The built-in properties are in no error.
ASSUME BuiltInAssumption ==
  /\ BuiltIn \in Seq(ToSet(BuiltIn))
  /\ \A b \in ToSet(BuiltIn) : b.game \in Names /\ AreUpdates(b.updates)
  /\ Game_InitProperties.status = "parsing"

\* History: an update as it is documented, on a map from protocols to games.
Claimed(map, game, u) ==
  IF u.prop # "protocols" THEN map
  ELSE [p \in Protocols |->
          IF p \in ToSet(u.values) THEN IF u.op = "-=" THEN NoGame ELSE game
          ELSE IF u.op = "=" /\ map[p] = game THEN NoGame ELSE map[p]]

ClaimedBy(map, game, updates) ==
  FoldLeft(LAMBDA m, u : Claimed(m, game, u), map, updates)

----------------------------------------------------------------------------
(* The options.                                                            *)

\* A parameter attached to its option ("-gname") is put before the others by a
\* memcpy that reads from the text of the next argument, not from argv.
Garbled(o) == o.attached /\ o.updates # <<>>

PolicyOption(o) ==
  /\ status = "parsing"
  /\ o.option = "game-policy"
  /\ IF o.attached
       THEN status' = "undefined" /\ UNCHANGED <<game_names, reject_when_known, listed>>
       ELSE Game_DeclarePolicy(o.policy, o.games)
  /\ UNCHANGED <<game_properties_list, game_protocols, claims>>

\* A game name alone is one parameter too few.
PropertiesOption(o) ==
  /\ status = "parsing"
  /\ o.option = "game-properties"
  /\ LET w == CASE Garbled(o) -> [status |-> "undefined", list |-> game_properties_list,
                                  protocols |-> game_protocols]
                [] o.updates = <<>> -> [status |-> "refused", list |-> game_properties_list,
                                        protocols |-> game_protocols]
                [] OTHER -> Game_UpdateProperties(
                              [status |-> status, list |-> game_properties_list,
                               protocols |-> game_protocols], o.game, o.updates)
     IN  /\ status' = w.status
         /\ game_properties_list' = w.list
         /\ game_protocols' = w.protocols
  /\ claims' = ClaimedBy(claims, o.game, o.updates)
  /\ UNCHANGED <<game_names, reject_when_known, listed>>

GamesInit ==
  /\ game_names = <<>>
  /\ reject_when_known = TRUE
  /\ game_properties_list = Game_InitProperties.list
  /\ game_protocols = Game_InitProperties.protocols
  /\ listed = {}
  /\ claims = FoldLeft(LAMBDA m, b : ClaimedBy(m, b.game, b.updates),
                       [p \in Protocols |-> NoGame], BuiltIn)

----------------------------------------------------------------------------
(* Properties.                                                             *)

Increasing(keys) == IsSorted(keys, LAMBDA a, b : a < b)

\* The variables have their types, which includes that the arrays are sorted for
\* the searches and that every protocol belongs to a game of the list.
GamesTypeOK ==
  /\ ToSet(game_names) \subseteq Names /\ Increasing(game_names)
  /\ reject_when_known \in BOOLEAN
  /\ ToSet(game_properties_list) \subseteq Properties
  /\ ToSet(game_protocols) \subseteq Assocs
  /\ Increasing([i \in DOMAIN game_protocols |-> game_protocols[i].protocol])
  /\ \A i \in DOMAIN game_protocols :
       Position(game_properties_list, game_protocols[i].game) # 0

Game_GetNameByProtocol(protocol) ==
  LET f == Game_FindAnonymous(game_protocols, protocol)
  IN  IF f.found THEN game_protocols[f.index + 1].game ELSE NoGame

\* Whatever the options were and in whatever order, the lookups of the running
\* master follow them: a protocol number belongs to the game it was last given to
\* and not taken from (doc/manual.txt:218-223), and a game is accepted if and only
\* if the lists, which all have one policy, say so (doc/manual.txt:125-133).
ProtocolsFollow == \A p \in Protocols : Game_GetNameByProtocol(p) = claims[p]

Declared(policy) == {g \in Names : <<policy, g>> \in listed}

PolicyFollows ==
  \A g \in Names : Game_IsAccepted(g) <=> IF Declared("accept") # {} THEN g \in Declared("accept")
                                          ELSE g \notin Declared("reject")

LookupsFollowOptions == status = "running" => ProtocolsFollow /\ PolicyFollows
=============================================================================
