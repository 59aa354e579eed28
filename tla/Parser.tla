------------------------------- MODULE Parser -------------------------------
(***************************************************************************)
(* The parser of user/sh.c, over the tokens that gettoken() makes of a     *)
(* line: parsecmd() and what it calls.  A panic ends the process that      *)
(* parses, a child of the shell.                                           *)
(***************************************************************************)
EXTENDS Integers, Sequences, SequencesExt

CONSTANTS
    Words,
    MAXARGS,
    Trees,        \* bound: the commands that are written down and parsed
    MaxTokens     \* bound on the length of any other line

Token == Words \cup {"<", ">", ">>", "|", "&", ";", "(", ")"}

ASSUME ParserAssumption == MAXARGS \in Nat \ {0}

VARIABLES line, parsed

parseVars == <<line, parsed>>

(* struct cmd *)
ExecCmd(argv) == [type |-> "EXEC", argv |-> argv]
RedirCmd(c, file, fd) == [type |-> "REDIR", cmd |-> c, file |-> file, fd |-> fd]
PipeCmd(c, d) == [type |-> "PIPE", left |-> c, right |-> d]
ListCmd(c, d) == [type |-> "LIST", left |-> c, right |-> d]
BackCmd(c) == [type |-> "BACK", cmd |-> c]
Unparsed == [type |-> "UNPARSED"]
Panic == [type |-> "PANIC"]

-----------------------------------------------------------------------------
(* A parse function returns the command and where the rest of s begins.    *)
Parsed(c, i) == [cmd |-> c, at |-> i]
Peek(s, i, toks) == i <= Len(s) /\ s[i] \in toks

(* Goes on with what was parsed, unless that was a panic *)
Then(r, F(_)) == IF r.cmd = Panic THEN r ELSE F(r)

RECURSIVE ParseLine(_, _), ParsePipe(_, _), ParseBacks(_, _), ParseRedirs(_, _),
          ParseArgs(_, _, _)

(* The last redirection is the outermost command. *)
ParseRedirs(s, r) ==
    IF ~Peek(s, r.at, {"<", ">", ">>"}) THEN r
    ELSE IF ~Peek(s, r.at + 1, Words) THEN Parsed(Panic, r.at)
    ELSE LET fd == IF s[r.at] = "<" THEN 0 ELSE 1
         IN  ParseRedirs(s, Parsed(RedirCmd(r.cmd, s[r.at + 1], fd), r.at + 2))

ParseBlock(s, i) ==
    Then(ParseLine(s, i + 1), LAMBDA r :
        IF Peek(s, r.at, {")"}) THEN ParseRedirs(s, Parsed(r.cmd, r.at + 1))
        ELSE Parsed(Panic, r.at))

(* The arguments go to the EXEC inside the redirections there are.         *)
RECURSIVE SetArgs(_, _)
SetArgs(c, argv) ==
    IF c.type = "EXEC" THEN ExecCmd(argv) ELSE [c EXCEPT !.cmd = SetArgs(c.cmd, argv)]

ParseArgs(s, r, argv) ==
    IF r.at > Len(s) \/ Peek(s, r.at, {"|", ")", "&", ";"})
    THEN Parsed(SetArgs(r.cmd, argv), r.at)
    ELSE IF ~Peek(s, r.at, Words) \/ Len(argv) + 1 >= MAXARGS THEN Parsed(Panic, r.at)
    ELSE Then(ParseRedirs(s, Parsed(r.cmd, r.at + 1)),
              LAMBDA t : ParseArgs(s, t, Append(argv, s[r.at])))

ParseExec(s, i) ==
    IF Peek(s, i, {"("}) THEN ParseBlock(s, i)
    ELSE Then(ParseRedirs(s, Parsed(ExecCmd(<<>>), i)), LAMBDA r : ParseArgs(s, r, <<>>))

ParsePipe(s, i) ==
    Then(ParseExec(s, i), LAMBDA r :
        IF ~Peek(s, r.at, {"|"}) THEN r
        ELSE Then(ParsePipe(s, r.at + 1), LAMBDA t : Parsed(PipeCmd(r.cmd, t.cmd), t.at)))

ParseBacks(s, r) ==
    IF Peek(s, r.at, {"&"}) THEN ParseBacks(s, Parsed(BackCmd(r.cmd), r.at + 1)) ELSE r

ParseLine(s, i) ==
    Then(ParsePipe(s, i), LAMBDA p :
        LET r == ParseBacks(s, p)
        IN  IF ~Peek(s, r.at, {";"}) THEN r
            ELSE Then(ParseLine(s, r.at + 1), LAMBDA t : Parsed(ListCmd(r.cmd, t.cmd), t.at)))

(* Leftovers are a syntax error. *)
ParseCmd(s) ==
    LET r == ParseLine(s, 1) IN IF r.at = Len(s) + 1 THEN r.cmd ELSE Panic

-----------------------------------------------------------------------------
(* How a command is written: with parentheses where it binds less.         *)
Brackets(s) == <<"(">> \o s \o <<")">>

RECURSIVE Written(_)
WrittenIn(c, types) == IF c.type \in types THEN Written(c) ELSE Brackets(Written(c))

Written(c) ==
    CASE c.type = "EXEC" -> c.argv
      [] c.type = "REDIR" ->
            WrittenIn(c.cmd, {"EXEC", "REDIR"}) \o <<IF c.fd = 0 THEN "<" ELSE ">", c.file>>
      [] c.type = "PIPE" ->
            WrittenIn(c.left, {"EXEC", "REDIR"}) \o <<"|">>
                \o WrittenIn(c.right, {"EXEC", "REDIR", "PIPE"})
      [] c.type = "BACK" -> WrittenIn(c.cmd, {"EXEC", "REDIR", "PIPE", "BACK"}) \o <<"&">>
      [] c.type = "LIST" ->
            WrittenIn(c.left, {"EXEC", "REDIR", "PIPE", "BACK"}) \o <<";">> \o Written(c.right)

ParseStart(s) == line = s /\ parsed = Unparsed

ParseInit == \E s \in {Written(c) : c \in Trees} \cup BoundedSeq(Token, MaxTokens) : ParseStart(s)

ParseNext ==
    /\ parsed = Unparsed
    /\ parsed' = ParseCmd(line)
    /\ UNCHANGED line

ParseSpec == ParseInit /\ [][ParseNext]_parseVars

(* The parser takes a command apart as it is written: | binds more than &, *)
(* & more than ;, pipes and lists group to the right, a redirection goes   *)
(* with the command before it.  And what it makes of any other line could  *)
(* have been written as well.                                              *)
ParserRight ==
    parsed # Unparsed =>
        /\ \A c \in Trees : line = Written(c) => parsed = c
        /\ parsed # Panic => ParseCmd(Written(parsed)) = parsed
=============================================================================
