--------------------------- MODULE DetachedStart ----------------------------
(***************************************************************************)
(* isolateDetachedStartCommand (src/src/security/classifier.ts) as         *)
(* applyPostChecks (index.ts) uses it: a command that begins with a        *)
(* detached start gets a redirection of its output, so that what it starts *)
(* does not hold the pipe OpenCode reads. It finds its place with regular  *)
(* expressions; the shell reads the result.                                *)
(*                                                                         *)
(* A command is a sequence of tokens. "quote" opens and closes a quoted    *)
(* text, in which the shell reads every token as part of a word.           *)
(***************************************************************************)
EXTENDS Naturals, Sequences, FiniteSets, SequencesExt

CONSTANTS
  Tokens,        \* besides "start"
  MaxLen         \* bound on the tokens of a command

StartAssumption ==
  /\ Tokens \subseteq {"word", "> f", "< f", "&&", "||", ";", "|", "newline", "&", "|&", "&> f", "quote"}
  /\ MaxLen \in Nat \ {0}

VARIABLES
  command,       \* as the hook was given it
  written,       \* as it is in the arguments of the tool
  checks         \* how often the hook has looked at it

vars == <<command, written, checks>>

-----------------------------------------------------------------------------
(* The rewriting *)

\* The characters ; & | and newline end the arguments of the start, in a quote or not.
Ends == {"&&", "||", ";", "|", "newline", "&", "|&", "&> f"}

\* What the separator expression matches; of |& it takes the first character.
Separators == {"&&", "||", ";", "|", "newline", "|&"}

\* The index of the first of these tokens, or one past the last.
FirstOf(s, tokens) == Min({i \in DOMAIN s : s[i] \in tokens} \cup {Len(s) + 1})

\* The start with its arguments, and what follows them.
First(c) == SubSeq(c, 1, FirstOf(c, Ends) - 1)
Rest(c) == SubSeq(c, FirstOf(c, Ends), Len(c))

\* A redirection of its own among the arguments, of whatever.
Angles == {"> f", "< f", "> null"}

Redirect == <<"> null">>

Isolate_separator(c) ==
  IF c = <<>> \/ Head(c) # "start" \/ ToSet(First(c)) \cap Angles # {} THEN c
  ELSE IF Rest(c) = <<>> \/ Head(Rest(c)) \notin Separators THEN c \o Redirect
  ELSE First(c) \o Redirect \o <<";">> \o Tail(Rest(c))

\* Where no separator follows the arguments, the redirection goes to the end of it all.
Isolate(c) ==
  IF c = <<>> \/ Head(c) # "start" \/ ToSet(First(c)) \cap Angles # {} THEN c
  ELSE IF Rest(c) = <<>> \/ Head(Rest(c)) \notin Separators THEN c \o Redirect
  ELSE IF Head(Rest(c)) = "|&" THEN First(c) \o Redirect \o <<"|", "&">> \o Tail(Rest(c))
  ELSE First(c) \o Redirect \o Rest(c)

\* applyPostChecks, with the isolation on and the supervisor not active.
Rewrite ==
  /\ checks < 2 /\ checks' = checks + 1
  /\ written' = Isolate(written)
  /\ UNCHANGED command

-----------------------------------------------------------------------------
(* What the shell reads: commands, each with its words, where its output *)
(* goes (OpenCode's pipe, the next command, a file) and what joins it on *)

Blank == [words |-> <<>>, output |-> "pipe", join |-> "end"]

Pipes == {"|", "|&"}

OneMore(list, item) == [list EXCEPT ![Len(list)] = item]

Worded(item, token) == [item EXCEPT !.words = Append(@, token)]
Routed(item, token) == [item EXCEPT !.output = token]
Joined(item, token) == [item EXCEPT !.join = token, !.output = IF token \in Pipes /\ @ = "pipe" THEN "next" ELSE @]

\* The list of commands after one more token, which may be in a quote.
More(list, quoted, token) ==
  LET item == Last(list) IN
  IF token = "quote" \/ quoted \/ token \in {"start", "word"} THEN OneMore(list, Worded(item, token))
  ELSE IF token \in {"> f", "&> f", "> null"} THEN OneMore(list, Routed(item, token))
  ELSE IF token = "< f" \/ (token = "newline" /\ item.words = <<>>) THEN list
  ELSE Append(OneMore(list, Joined(item, token)), Blank)

Turned(quoted, token) == IF token = "quote" THEN ~quoted ELSE quoted

Read(state, token) == [quoted |-> Turned(state.quoted, token), list |-> More(state.list, state.quoted, token)]

\* The state after the last token.
Reading(c) ==
  LET after[k \in 0..Len(c)] == IF k = 0 THEN [quoted |-> FALSE, list |-> <<Blank>>] ELSE Read(after[k - 1], c[k])
  IN  after[Len(c)]

Meaning(c) == Reading(c).list

\* No quote is left open, every join has a command before it and, unless it may end a
\* program, one after it.
IsProgram(c) ==
  LET list == Meaning(c)
  IN  /\ c # <<>> /\ ~Reading(c).quoted /\ Head(c) # "newline" /\ Last(c) # "newline"
      /\ \A i \in 1..(Len(list) - 1) : list[i].words # <<>>
      /\ Last(list).words # <<>> \/ Last(c) \in {";", "&"}

\* The first command with its output taken away, if it went to the pipe.
Isolated(list) ==
  IF Head(list).output = "pipe" THEN [list EXCEPT ![1].output = "> null"] ELSE list

-----------------------------------------------------------------------------
Init ==
  /\ command \in {c \in SeqOf(Tokens \cup {"start"}, MaxLen) : IsProgram(c)} /\ written = command /\ checks = 0

Next == Rewrite

Spec == Init /\ [][Next]_vars

-----------------------------------------------------------------------------
(* Properties *)

\* The arguments of the start end where no quote is open.
Unquoted(c) == ~Reading(First(c)).quoted

\* They end with the command or with a separator that takes no output on.
Clear(c) == Unquoted(c) /\ (Rest(c) = <<>> \/ Head(Rest(c)) \in {"&&", "||", ";", "newline"})

\* "two optional hardening features may adjust the tool arguments (a default timeout
\* and detached-start handle isolation), never the meaning of the command"
\* (README.md:28), where the start is clear: the shell reads the same commands, joined
\* in the same way, and only the start at the front has its output elsewhere; looking
\* at it again changes nothing more (classifier.ts:3817-3831).
MeaningKept ==
  (checks > 0 /\ Clear(command)) => Meaning(written) \in {Meaning(command), Isolated(Meaning(command))}

\* What was classified is what runs, unless the arguments end in a quote or with |&:
\* the shell reads the same words joined in the same way, wherever their output goes,
\* however often the hook looks at them (index.ts:379-384, classifier.ts:3817-3831).
CommandsKept ==
  (checks > 0 /\ Unquoted(command) /\ ~(Rest(command) # <<>> /\ Head(Rest(command)) = "|&")) =>
    /\ Len(Meaning(written)) = Len(Meaning(command))
    /\ \A i \in DOMAIN Meaning(command) :
         Meaning(written)[i].words = Meaning(command)[i].words /\ Meaning(written)[i].join = Meaning(command)[i].join

\* "launch detached processes that inherit the bash tool's stdout/stderr pipe, so
\* OpenCode waits for the pipe to reach EOF" (classifier.ts:3809-3816): after the
\* check a clear start at the front, with no redirection of its own, does not write to
\* the pipe.
StartIsDetached ==
  (checks > 0 /\ Head(command) = "start" /\ Clear(command) /\ ToSet(First(command)) \cap Angles = {}) =>
    Head(Meaning(written)).output # "pipe"

\* The same of every start. They do not hold: & and &> f send the redirection to the
\* end of it all, | and |& lose what they take on, a separator in a quote is one to the
\* expression, and < or a quoted > stops it (classifier.ts:3821-3826).
EveryMeaningKept ==
  checks > 0 => Meaning(written) \in {Meaning(command), Isolated(Meaning(command))}

EveryStartIsDetached ==
  (checks > 0 /\ Head(command) = "start") => Head(Meaning(written)).output # "pipe"
=============================================================================
