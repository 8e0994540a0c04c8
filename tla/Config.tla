-------------------------------- MODULE Config --------------------------------
(***************************************************************************)
(* The configuration of src/src/config.c: the default directory, and the   *)
(* lines of anvi.conf, which are cut in place while they are parsed.       *)
(*                                                                         *)
(* A file is a sequence of characters.  The only key there is counts as    *)
(* one character, and one space stands for everything else that isspace    *)
(* accepts; what is not named here is an ordinary character.               *)
(***************************************************************************)
EXTENDS Integers, Sequences, FiniteSetsExt

CONSTANTS
  Characters,      \* the characters files are made of
  Files,           \* the contents anvi.conf may have
  DefaultDirs,     \* what the default directory may be
  SizeofBuffer,    \* sizeof buffer in anvi_config_load
  MaxFilePathLen   \* MAX_FILE_PATH_LEN

Key     == "save_directory"
Space   == "space"
Newline == "newline"
Quote   == "quote"
Unset   == <<"uninitialised">>

ASSUME ConfigAssumption ==
  /\ Files \subseteq Seq(Characters)
  /\ DefaultDirs \subseteq Seq(Characters)
  /\ SizeofBuffer \in Nat /\ SizeofBuffer > 1
  /\ MaxFilePathLen \in Nat /\ MaxFilePathLen > 0

VARIABLES
  pc,        \* the step; "loaded", "invalid" and "failed" are the outcomes
  contents,  \* of anvi.conf; that of a file that is not there is empty
  unread,    \* what fgets has not returned yet
  save_dir   \* config->save_dir

configVars == <<pc, contents, unread, save_dir>>

Init ==
  /\ pc = "defaults"
  /\ contents \in Files
  /\ unread = contents
  /\ save_dir = Unset

-----------------------------------------------------------------------------
(* One line.                                                               *)

Blank(c) == c \in {Space, Newline}

(* trim_whitespace *)
TrimWhitespace(s) ==
  LET text == { i \in DOMAIN s : ~ Blank(s[i]) }
  IN  IF text = {} THEN << >> ELSE SubSeq(s, Min(text), Max(text))

StartsWith(s, c) == s # << >> /\ s[1] = c
EndsWith(s, c)   == s # << >> /\ s[Len(s)] = c

(* A pair of quotes goes; a quote without its partner leaves nothing.      *)
Unquoted(v) ==
  IF Len(v) >= 2 /\ StartsWith(v, Quote) /\ EndsWith(v, Quote)
  THEN SubSeq(v, 2, Len(v) - 1)
  ELSE IF StartsWith(v, Quote) \/ EndsWith(v, Quote) THEN << >> ELSE v

(* Slip: no room is left for the final NUL. *)
FitsInValueWithoutNul(v) == v # << >> /\ Len(v) <= MaxFilePathLen

FitsInValue(v) == v # << >> /\ Len(v) < MaxFilePathLen

UpToEquals(line) == SubSeq(line, 1, Min({ i \in DOMAIN line : line[i] = "=" }) - 1)

(* get_config_line_result: is the line ok, the value it sets (never        *)
(* written for a line that sets none), and what is left of the line when   *)
(* `=' was overwritten.                                                    *)
LineResult(line) ==
  LET text   == TrimWhitespace(line)
      equals == { i \in DOMAIN text : text[i] = "=" }
      key    == TrimWhitespace(SubSeq(text, 1, Min(equals) - 1))
      value  == Unquoted(TrimWhitespace(SubSeq(text, Min(equals) + 1, Len(text))))
  IN  IF text = << >> \/ StartsWith(text, "#")
      THEN [ok |-> TRUE, value |-> Unset, left |-> line]
      ELSE IF equals # {} /\ key = <<Key>> /\ FitsInValue(value)
      THEN [ok |-> TRUE, value |-> value, left |-> UpToEquals(line)]
      ELSE [ok |-> FALSE, value |-> Unset, left |-> line]

(* Slip: the second look is at the line with its leading spaces.           *)
IsSettingUntrimmed(left) ==
  left # << >> /\ ~ Blank(left[1]) /\ ~ StartsWith(left, "#")

(* Does anvi_config_load use the result?  It looks at the line once more.  *)
IsSetting(left) ==
  TrimWhitespace(left) # << >> /\ ~ StartsWith(TrimWhitespace(left), "#")

-----------------------------------------------------------------------------
(* The loop over the lines.                                                *)

Newlines(s) == { i \in DOMAIN s : s[i] = Newline }

(* fgets: up to a newline, the end of the file, or a full buffer. *)
Fgets(s) ==
  SubSeq(s, 1, Min({Len(s), SizeofBuffer - 1} \cup Newlines(s)))

(* The end of the file was met before the buffer was full. *)
Feof(s) == Newlines(Fgets(s)) = {} /\ Len(s) < SizeofBuffer - 1

(* Slip: a last line without a newline is too long. *)
TooLongAtEnd(s) == Newlines(Fgets(s)) = {}

TooLong(s) == Newlines(Fgets(s)) = {} /\ ~ Feof(s)

Step(from, to) == pc = from /\ pc' = to

(* anvi_config_set_defaults *)
SetDefaults ==
  /\ Step("defaults", "open")
  /\ \E d \in DefaultDirs : Len(d) < MaxFilePathLen /\ save_dir' = d
  /\ UNCHANGED <<contents, unread>>

SetDefaultsFails ==
  /\ Step("defaults", "failed")
  /\ \E d \in DefaultDirs : Len(d) >= MaxFilePathLen
  /\ UNCHANGED <<contents, unread, save_dir>>

Open ==
  /\ Step("open", "loop")
  /\ UNCHANGED <<contents, unread, save_dir>>

(* The file is not there. *)
OpenFindsNothing ==
  /\ contents = << >>
  /\ Step("open", "loaded")
  /\ UNCHANGED <<contents, unread, save_dir>>

(* Opening fails, or reading. *)
InputFails ==
  /\ Step("open", "failed") \/ Step("loop", "failed")
  /\ UNCHANGED <<contents, unread, save_dir>>

(* A turn of the loop. *)
LoadLine ==
  LET line == Fgets(unread)
      res  == LineResult(line)
  IN  /\ pc = "loop" /\ unread # << >>
      /\ ~ TooLong(unread)
      /\ res.ok
      /\ save_dir' = IF IsSetting(res.left) THEN res.value ELSE save_dir
      /\ unread' = SubSeq(unread, Len(line) + 1, Len(unread))
      /\ UNCHANGED <<pc, contents>>

(* A turn that ends in an error. *)
RejectLine ==
  /\ unread # << >>
  /\ Step("loop", "invalid")
  /\ TooLong(unread) \/ ~ LineResult(Fgets(unread)).ok
  /\ UNCHANGED <<contents, unread, save_dir>>

EndOfFile ==
  /\ unread = << >>
  /\ Step("loop", "loaded")
  /\ UNCHANGED <<contents, unread, save_dir>>

Outcomes == {"loaded", "invalid", "failed"}
Done     == pc \in Outcomes /\ UNCHANGED configVars

Next ==
  \/ SetDefaults \/ SetDefaultsFails
  \/ Open \/ OpenFindsNothing \/ InputFails
  \/ LoadLine \/ RejectLine \/ EndOfFile
  \/ Done

Spec == Init /\ [][Next]_configVars

-----------------------------------------------------------------------------
(* What a file says, without the parser.                                   *)

BlankBetween(line, i, j) == \A k \in i .. j : k \in DOMAIN line => Blank(line[k])

(* Without quotes at its ends, a value is what is between the spaces. *)
Plain(line, i, j) ==
  /\ ~ Blank(line[i]) /\ ~ Blank(line[j])
  /\ line[i] # Quote /\ line[j] # Quote

(* save_directory = v, or the same with v between quotes. *)
Sets(line, v) ==
  \E k, e, i, j \in 1 .. Len(line) :
    /\ k < e /\ e < i /\ i <= j
    /\ line[k] = Key /\ line[e] = "="
    /\ BlankBetween(line, 1, k - 1) /\ BlankBetween(line, k + 1, e - 1)
    /\ BlankBetween(line, e + 1, i - 1) /\ BlankBetween(line, j + 1, Len(line))
    /\ \/ Plain(line, i, j) /\ v = SubSeq(line, i, j)
       \/ i < j /\ line[i] = Quote /\ line[j] = Quote /\ v = SubSeq(line, i + 1, j - 1)

SetsNothing(line) ==
  \/ BlankBetween(line, 1, Len(line))
  \/ \E k \in DOMAIN line : line[k] = "#" /\ BlankBetween(line, 1, k - 1)

(* The lines of a file, by where they start. *)
Starts(s)     == {1} \cup { i + 1 : i \in Newlines(s) }
LineAt(s, i)  == SubSeq(s, i, Min({ j \in i .. Len(s) : s[j] = Newline } \cup {Len(s) + 1}) - 1)
Values(s)     == { SubSeq(s, i, j) : i, j \in 1 .. Len(s) }
Setting(s, i) == { v \in Values(s) : FitsInValue(v) /\ Sets(LineAt(s, i), v) }

(* With its newline, a line has to fit in the buffer. *)
ValidLine(s, i) ==
  /\ Len(LineAt(s, i)) + 1 < SizeofBuffer
  /\ SetsNothing(LineAt(s, i)) \/ Setting(s, i) # {}

-----------------------------------------------------------------------------
(* Properties.                                                             *)

(* Type invariant; in particular no value is longer than save_dir, which   *)
(* handle_save_directory_config_key copies to unchecked (config.c:117).    *)
ConfigTypeOK ==
  /\ pc \in {"defaults", "open", "loop"} \cup Outcomes
  /\ contents \in Files
  /\ unread \in Seq(Characters)
  /\ pc \notin {"defaults", "failed"} =>
       save_dir \in Seq(Characters) /\ Len(save_dir) < MaxFilePathLen

(* A file that is loaded is valid in every line, and the last line that    *)
(* sets a directory counts, quoted or not; without one the default stays.  *)
(* No result that was never written is used (config.c:165-173).            *)
LoadsWhatIsWritten ==
  pc = "loaded" =>
    LET setting == { i \in Starts(contents) : Setting(contents, i) # {} }
    IN  /\ \A i \in Starts(contents) : ValidLine(contents, i)
        /\ save_dir \in IF setting = {} THEN DefaultDirs
                                        ELSE Setting(contents, Max(setting))

(* A file is rejected only if one of its lines is not valid, whether the   *)
(* last one ends with a newline or not (config.c:157-168).                 *)
RejectsOnlyInvalid ==
  pc = "invalid" => \E i \in Starts(contents) : ~ ValidLine(contents, i)
=============================================================================
