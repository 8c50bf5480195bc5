---------------------------- MODULE MCPluginRun ----------------------------
(* Files that vary in one respect each: every comment of up to             *)
(* CommentLength characters of an alphabet with all that is special to     *)
(* EscapeJavadoc, Split and WriteDocCommentBody (one character stands for  *)
(* those that are always escaped); every name of up to NameLength          *)
(* characters with small letters, capitals, a digit and underscores, and   *)
(* the names whose ids are committed with testing-proto; up to two         *)
(* services, some named like another's client or server, in the default    *)
(* package, a package and a package of a package; up to two options.       *)
EXTENDS PluginRun, Integers, TLC

CONSTANTS CommentLength, NameLength

MCChars == {"*", "/", "\n", "@", "a"}
MCComments == UNION {[1 .. n -> MCChars] : n \in 0 .. CommentLength}

io_netifi_testing ==
  <<105, 111, 46, 110, 101, 116, 105, 102, 105, 46, 116, 101, 115, 116, 105,
    110, 103>>
SimpleService ==
  <<83, 105, 109, 112, 108, 101, 83, 101, 114, 118, 105, 99, 101>>
RequestReply ==
  <<82, 101, 113, 117, 101, 115, 116, 82, 101, 112, 108, 121>>

(* SimpleService.java:9 to :11.                                            *)
MCCommitted ==
  (io_netifi_testing :> 298608432) @@ (SimpleService :> -1305494814)
  @@ (io_netifi_testing \o <<46>> \o SimpleService \o <<46>> \o RequestReply
        :> 2003126180)

MCWords ==
  DOMAIN MCCommitted \cup {RequestReply}
  \cup UNION {{w \in [1 .. n -> {97, 122, 66, 49, 95}] : w[1] # 49} :
                n \in 1 .. NameLength}

(* 0, 1, -1 and the smallest int.                                          *)
MCNamespaces == {[hi |-> 0, lo |-> 0], [hi |-> 0, lo |-> 1],
                 [hi |-> 65535, lo |-> 65535], [hi |-> 32768, lo |-> 0]}

MCPackages == {<<>>, <<"io">>, <<"io", ".", "netifi">>}

Foo == <<"Foo">>
Bar == <<"Bar">>
ServiceNames == {Foo, Bar, Foo \o <<"Client">>, Foo \o <<"Server">>,
                 Foo \o <<"Server", "Client">>}

MCServiceLists ==
  {s \in UNION {[1 .. n -> ServiceNames] : n \in 0 .. 2} :
     \A a, b \in DOMAIN s : s[a] = s[b] => a = b}

MCParameters == UNION {[1 .. n -> {"lite", "noversion", "other"}] : n \in 0 .. 2}

Plain == [located |-> TRUE, leading |-> <<"a">>, trailing |-> <<>>,
          preTag |-> TRUE, word |-> <<97>>,
          package |-> <<"io">>, services |-> <<Foo>>, parameter |-> <<>>]

MCFiles ==
  {[Plain EXCEPT !.located = l, !.leading = c, !.preTag = t] :
     l, t \in BOOLEAN, c \in MCComments}
  \cup {[Plain EXCEPT !.leading = <<>>, !.trailing = c] : c \in MCComments}
  \cup {[Plain EXCEPT !.word = w] : w \in MCWords}
  \cup {[Plain EXCEPT !.package = q, !.services = s, !.parameter = o] :
          q \in MCPackages, s \in MCServiceLists, o \in MCParameters}
=============================================================================
