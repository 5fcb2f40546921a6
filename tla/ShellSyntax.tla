---------------------------- MODULE ShellSyntax -----------------------------
(***************************************************************************)
(* Characters and what they mean to the shell (box/shell/ash.c): the       *)
(* syntax tables, names, and the control characters that the parser leaves *)
(* in the text of a word for the expansion to find.                        *)
(*                                                                         *)
(* A character is a string of length one; the end of the input and the     *)
(* control characters are strings of their own.  The byte that follows a   *)
(* CTLVAR is three elements: the kind of substitution, whether a colon was *)
(* given (VSNUL) and whether it is quoted (VSQUOTE).                       *)
(***************************************************************************)
EXTENDS Integers, Sequences

Digits  == {"0", "1", "2", "3", "4", "5", "6", "7", "8", "9"}
Letters == {"a", "b", "c", "d", "e", "f", "g", "h", "i", "j", "k", "l", "m",
            "n", "o", "p", "q", "r", "s", "t", "u", "v", "w", "x", "y", "z",
            "A", "B", "C", "D", "E", "F", "G", "H", "I", "J", "K", "L", "M",
            "N", "O", "P", "Q", "R", "S", "T", "U", "V", "W", "X", "Y", "Z"}

EOF == "eof"
BQ  == "bquote"         \* the backquote, which is no character of a TLA+ string
ControlChars == {"ctlesc", "ctlvar", "ctlendvar", "ctlbackq", "ctlbackqq",
                 "ctlari", "ctlendari", "ctlquotemark"}

\* S_I_T: the class of a character in the four syntaxes.
Classes ==
    [Base |-> [spcl |-> "CSPCL", nl |-> "CNL", meta |-> "CWORD", dq |-> "CDQUOTE", var |-> "CVAR",
               sq |-> "CSQUOTE", lp |-> "CSPCL", rp |-> "CSPCL", back |-> "CBACK",
               bq |-> "CBQUOTE", endvar |-> "CENDVAR", eof |-> "CENDFILE", word |-> "CWORD", ctl |-> "CCTL"],
     Dq   |-> [spcl |-> "CWORD", nl |-> "CNL", meta |-> "CCTL", dq |-> "CENDQUOTE", var |-> "CVAR",
               sq |-> "CWORD", lp |-> "CWORD", rp |-> "CWORD", back |-> "CBACK",
               bq |-> "CBQUOTE", endvar |-> "CENDVAR", eof |-> "CENDFILE", word |-> "CWORD", ctl |-> "CCTL"],
     Sq   |-> [spcl |-> "CWORD", nl |-> "CNL", meta |-> "CCTL", dq |-> "CWORD", var |-> "CWORD",
               sq |-> "CENDQUOTE", lp |-> "CWORD", rp |-> "CWORD", back |-> "CCTL",
               bq |-> "CWORD", endvar |-> "CWORD", eof |-> "CENDFILE", word |-> "CWORD", ctl |-> "CCTL"],
     Ari  |-> [spcl |-> "CWORD", nl |-> "CNL", meta |-> "CWORD", dq |-> "CWORD", var |-> "CVAR",
               sq |-> "CWORD", lp |-> "CLP", rp |-> "CRP", back |-> "CBACK",
               bq |-> "CBQUOTE", endvar |-> "CENDVAR", eof |-> "CENDFILE", word |-> "CWORD", ctl |-> "CCTL"]]

\* syntax_index_table: the row of a character.
Row(c) ==
    CASE c \in {" ", "\t", "&", ";", "<", ">", "|"} -> "spcl"
      [] c = "\n" -> "nl"
      [] c \in {"!", "*", "-", "/", ":", "=", "?", "[", "]", "~"} -> "meta"
      [] c = "\"" -> "dq"    [] c = "$" -> "var"    [] c = "'" -> "sq"
      [] c = "(" -> "lp"     [] c = ")" -> "rp"     [] c = "\\" -> "back"
      [] c = BQ -> "bq"     [] c = "}" -> "endvar" [] c = EOF -> "eof"
      [] c \in ControlChars -> "ctl"
      [] OTHER -> "word"

SIT(c, syntax) == Classes[syntax][Row(c)]

is_name(c)    == c \in Letters \cup {"_"}
is_in_name(c) == c \in Letters \cup Digits \cup {"_"}
is_special(c) == c \in Digits \cup {"!", "#", "$", "*", "-", "?", "@"}

\* endofname: how many of the first characters are a name.
endofname(text) ==
    IF text = <<>> \/ ~is_name(text[1]) THEN 0
    ELSE CHOOSE n \in 1..Len(text) :
            /\ \A i \in 1..n : is_in_name(text[i])
            /\ n = Len(text) \/ ~is_in_name(text[n + 1])

goodname(text) == endofname(text) = Len(text)
isassignment(text) ==
    LET n == endofname(text)
    IN  n > 0 /\ n < Len(text) /\ text[n + 1] = "="

\* noexpand: nothing in the text is expanded.
noexpand(text) ==
    \A i \in DOMAIN text :
        text[i] \in ControlChars \ {"ctlesc", "ctlquotemark"} => i > 1 /\ text[i - 1] = "ctlesc"
=============================================================================
