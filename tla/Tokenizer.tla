------------------------------ MODULE Tokenizer ------------------------------
(* Reading a configuration file: daemon/config.c splits it into lines of    *)
(* words; core/console.c has a copy of the same code for what is typed at   *)
(* a console.                                                               *)
(*                                                                          *)
(* A character is itself or "a" for all that are nothing special.  Words    *)
(* are unquoted where they stand: what of the buffer is behind `out' holds  *)
(* the words of the current line, what is before it is still to be read.    *)
(* When a line has no word the first of its words is looked at all the      *)
(* same; what an earlier line left there, or nobody did, does not matter.   *)
EXTENDS Integers, Sequences, FiniteSets, SequencesExt, FiniteSetsExt

CONSTANTS BufSize,   \* MRP_CFG_MAXLINE
          MaxArgs,   \* MRP_CFG_MAXARGS
          MaxFile    \* bound on the length of a file

Space == " "     Tab == "t"     Newline == "n"     Escape == "\\"
Comment == "#"   Quotes == {"'", "\""}
Alphabet == {"a", Space, Newline, Escape, Comment, "'"}

(* input_t; `first' is whether the current token is at the buffer's start.  *)
Opened(f) == [file |-> f, rest |-> <<>>, out |-> 0, first |-> TRUE, open |-> TRUE,
              nextNewline |-> FALSE, wasNewline |-> FALSE, error |-> FALSE]

(* The tokens of the line that was finished are discarded.                  *)
Flush(in) == IF in.wasNewline THEN [in EXCEPT !.out = 0] ELSE in

Read(in, size) ==
    LET n == IF Len(in.file) < size THEN Len(in.file) ELSE size
    IN  [in EXCEPT !.rest = @ \o SubSeq(in.file, 1, n), !.file = SubSeq(@, n + 1, Len(@)),
                   !.open = Len(in.file) >= size]

RefillEmpty(in) == IF in.first /\ in.open /\ in.rest = <<>> THEN Read(in, BufSize - 1 - in.out) ELSE in

(* The first token and the one after the first of a line read more of the   *)
(* file; a file that gives less than asked for is closed.                   *)
Refill(in) == IF in.first /\ in.open THEN Read(in, BufSize - 1 - (in.out + Len(in.rest))) ELSE in

IsBlank(c) == c \in {Space, Tab}
Skip(s, i) == Min({j \in i .. Len(s) + 1 : j = Len(s) + 1 \/ ~IsBlank(s[j])})

(* The loop over the characters: how a token ends, its text, where to go    *)
(* on, and whether a character of it was seen.                              *)
RECURSIVE Scan(_, _, _, _)
Scan(in, i, quote, text) ==
    LET s == in.rest
        End(how, at) == [how |-> how, text |-> text, at |-> at]
        newlines == {j \in i .. Len(s) : s[j] = Newline}
    IN  CASE i > Len(s) -> End(IF in.open THEN "too long" ELSE "token", i)
          [] i <= Len(s) /\ s[i] \in Quotes ->
               IF quote = "" THEN Scan(in, i + 1, s[i], text)
               ELSE IF s[i] = quote THEN Scan(in, i + 1, "", text)
               ELSE Scan(in, i + 1, quote, Append(text, s[i]))
          [] i <= Len(s) /\ IsBlank(s[i]) ->
               IF quote = "" THEN End("token", i + 1) ELSE Scan(in, i + 1, quote, Append(text, s[i]))
          [] i <= Len(s) /\ s[i] = Escape ->
               IF i = Len(s) THEN Scan(in, i + 1, quote, Append(text, s[i]))
               ELSE IF s[i + 1] = Newline THEN Scan(in, Skip(s, i + 2), quote, text)
               ELSE Scan(in, i + 2, quote, Append(text, s[i + 1]))
          [] i <= Len(s) /\ s[i] = Comment ->
               IF newlines = {} THEN End("error", i) ELSE Scan(in, Min(newlines), quote, text)
          [] i <= Len(s) /\ s[i] = Newline ->
               IF quote # "" THEN End("error", i)
               ELSE IF text = <<>> THEN End("newline", i + 1) ELSE End("last token", i + 1)
          [] OTHER -> Scan(in, i + 1, quote, Append(text, s[i]))

(* get_next_token: [in, got], got one of <<"token", text>>, <<"newline">>   *)
(* and <<"none">>.                                                          *)
NextToken(in0) ==
    IF in0.nextNewline
    THEN [in |-> [in0 EXCEPT !.nextNewline = FALSE, !.wasNewline = TRUE], got |-> <<"newline">>]
    ELSE LET in == Refill(Flush(in0))
             r == Scan(in, Skip(in.rest, 1), "", <<>>)
             on == [in EXCEPT !.rest = SubSeq(@, r.at, Len(@)), !.out = @ + r.at - 1,
                              !.first = in.out = 0,
                              !.nextNewline = r.how = "last token",
                              !.wasNewline = (@ /\ r.text = <<>>) \/ r.how = "newline"]
         IN  CASE in.rest = <<>> -> [in |-> in, got |-> <<"none">>]
               [] in.rest # <<>> /\ r.how = "error" -> [in |-> [in EXCEPT !.error = TRUE], got |-> <<"none">>]
               [] in.rest # <<>> /\ r.how = "too long" -> [in |-> in, got |-> <<"none">>]
               [] in.rest # <<>> /\ r.how = "newline" -> [in |-> on, got |-> <<"newline">>]
               [] OTHER -> [in |-> on, got |-> <<"token", r.text>>]

Skipped(args) == args # <<>> /\ args[1] # <<>> /\ args[1][1] = Comment

(* get_next_line: [in, n, args], n = -1 for an error.                       *)
RECURSIVE NextLine(_, _)
NextLine(in, args) ==
    LET t == NextToken(in)
        Done(n) == [in |-> t.in, n |-> n, args |-> args]
    IN  IF t.got = <<"none">> \/ Len(args) >= MaxArgs
        THEN Done(IF t.in.error \/ Len(args) >= MaxArgs THEN -1 ELSE IF Skipped(args) THEN 0 ELSE Len(args))
        ELSE IF t.got # <<"newline">> THEN NextLine(t.in, Append(args, t.got[2]))
        ELSE IF args # <<>> /\ ~Skipped(args) THEN Done(Len(args))
        ELSE NextLine(t.in, <<>>)

(* The loop of mrp_parse_cfgfile: the lines, and whether all went well.     *)
RECURSIVE Lines(_, _)
Lines(in, lines) ==
    LET l == NextLine(in, <<>>)
    IN  IF l.n > 0 THEN Lines(l.in, Append(lines, l.args)) ELSE [ok |-> l.n = 0, lines |-> lines]

------------------------------------------------------------------------------
(* Reference: a file is cut at its newlines that are neither escaped nor    *)
(* commented away, and a line at its blanks that are neither escaped nor    *)
(* quoted.  The role of a character depends on those before it only.        *)
RECURSIVE Roles(_, _, _)
Roles(f, i, mode) ==
    IF i > Len(f) THEN <<>>
    ELSE LET c == f[i]
             r == CASE mode = "comment" /\ c # Newline -> <<"none", mode>>
                    [] mode \in {"escape", "escape'"} /\ c = Newline ->
                         <<"none", IF mode = "escape" THEN "join" ELSE "join'">>
                    [] mode \in {"escape", "escape'"} /\ c # Newline ->
                         <<"text", IF mode = "escape" THEN "word" ELSE "word'">>
                    [] mode \in {"join", "join'"} /\ c = Space -> <<"none", mode>>
                    [] mode \notin {"comment", "escape", "escape'"} /\ c = Escape ->
                         <<IF i = Len(f) THEN "text" ELSE "none",
                           IF mode \in {"word'", "join'"} THEN "escape'" ELSE "escape">>
                    [] mode \notin {"comment", "escape", "escape'"} /\ c = Comment ->
                         IF mode \in {"word'", "join'"} \/ \A j \in i .. Len(f) : f[j] # Newline
                         THEN <<"error", mode>> ELSE <<"none", "comment">>
                    [] mode \notin {"escape", "escape'"} /\ c = Newline ->
                         <<IF mode \in {"word'", "join'"} THEN "error" ELSE "line", "word">>
                    [] mode \in {"word'", "join'"} /\ c = "'" -> <<"quote", "word">>
                    [] mode \in {"word", "join"} /\ c = "'" -> <<"quote", "word'">>
                    [] mode = "word" /\ c = Space -> <<"blank", mode>>
                    [] OTHER -> <<"text", IF mode \in {"word'", "join'"} THEN "word'" ELSE "word">>
         IN  <<r[1]>> \o Roles(f, i + 1, r[2])

(* Words end at blanks, and at the end of their line unless empty there.    *)
WordsOf(f, roles, from, to) ==
    LET text(a, b) == LET at == SetToSortSeq({j \in a .. b : roles[j] = "text"}, <)
                      IN  [k \in DOMAIN at |-> f[at[k]]]
        marked(a, b) == \E j \in a .. b : roles[j] \in {"text", "quote"}
        ends == {j \in from .. to : roles[j] \in {"blank", "line"}}
        begin(j) == Max({from - 1} \cup {k \in ends : k < j}) + 1
        real == {j \in ends : IF roles[j] = "blank" THEN marked(begin(j), j)
                                                   ELSE text(begin(j), j) # <<>>}
        order == SetToSortSeq(real, <)
    IN  [k \in DOMAIN order |-> text(begin(order[k]), order[k])]

LinesOf(f) ==
    LET roles == Roles(f, 1, "word")
        cuts == SetToSortSeq({j \in DOMAIN f : roles[j] = "line"}, <)
        all == [k \in DOMAIN cuts |-> WordsOf(f, roles, IF k = 1 THEN 1 ELSE cuts[k - 1] + 1, cuts[k])]
    IN  SelectSeq(all, LAMBDA args : args # <<>> /\ ~Skipped(args))

Fits(f, roles) ==
    LET ends == {0, Len(f)} \cup {j \in DOMAIN f : roles[j] = "line"}
    IN  \A j, k \in ends : Cardinality({l \in ends : j < l /\ l <= k}) \in 1 .. 2 => k - j < BufSize

------------------------------------------------------------------------------
VARIABLES file, readLines
tokenizerVars == <<file, readLines>>

(* Files that end with a newline.                                           *)
TokenizerInit == /\ \E n \in 0 .. MaxFile - 1 : \E f \in [1 .. n -> Alphabet] : file = Append(f, Newline)
                 /\ readLines = {}
TokenizerNext == readLines = {} /\ readLines' = {Lines(Opened(file), <<>>)} /\ UNCHANGED file

(* However the reads cut the file, its lines come out word for word as long *)
(* as the buffer holds any two lines that follow each other and the last    *)
(* one is ended - quotes, escapes, comments and joined lines included - up  *)
(* to the first line that has an error in it or too many words              *)
(* (get_next_token, get_next_line, mrp_parse_cfgfile).                      *)
LinesAreRead ==
    LET roles == Roles(file, 1, "word")
        bad == "error" \in ToSet(roles)
        long == \E j \in DOMAIN LinesOf(file) : Len(LinesOf(file)[j]) >= MaxArgs
    IN  Fits(file, roles) /\ Last(roles) = "line" =>
          \A r \in readLines : /\ r.ok => ~bad /\ r.lines = LinesOf(file)
                               /\ r.ok \/ bad \/ long
                               /\ ~bad => IsPrefix(r.lines, LinesOf(file))
==============================================================================
