------------------------------- MODULE MCConfig -------------------------------
(* An instance of Config for TLC: all short files, and files of up to three *)
(* lines that set directories, say nothing, are invalid, or just fit.       *)
EXTENDS Config

Alphabet == {Key, Space, Newline, Quote, "#", "=", "x"}

Lines ==
  { <<Key, "=", "x">>,
    <<Space, Key, Space, "=", Space, "x", "x">>,
    <<Key, "=", Space, Quote, Space, "x", Quote>>,
    <<Key, "=", Quote, "x", "x", "x", Quote>>,
    <<Key, "=", "x", "x", Space, Space, Space, Space>>,
    <<"#", Key, "=", "#">>,
    <<Space>>,
    << >> }

ShortFiles == UNION { [1 .. n -> Alphabet] : n \in 0 .. 5 }
LongFiles  == { a \o <<Newline>> \o b : a, b \in Lines }
                \cup { a \o <<Newline>> \o b \o <<Newline>> \o c : a, b, c \in Lines }
AllFiles   == ShortFiles \cup Lines \cup LongFiles

Defaults == { <<"x", "=">>, <<"x", "x", "x">> }
=============================================================================
