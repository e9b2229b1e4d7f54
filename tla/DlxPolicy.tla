------------------------------ MODULE DlxPolicy ------------------------------
(***************************************************************************)
(* Does the policy "dlx-tickets" of infra/modules/rabbitmq/user_data.sh    *)
(* apply to the queue tickets.buy?                                         *)
(*                                                                         *)
(* The definitions file is written by a quoted here-document in a          *)
(* template, neither of which touches backslashes, so RabbitMQ reads the   *)
(* JSON string as it stands in the source.  JSON takes one level of        *)
(* escapes away, the regular expression reads what is left.  Text is a     *)
(* sequence of tokens; a run of letters is one token.                      *)
(***************************************************************************)
EXTENDS Naturals, Sequences

Backslash == "\\"

\* The value of a JSON string body: an escaped token stands for itself.
JsonValue(text) ==
    LET value[i \in 1 .. Len(text) + 2] ==
            CASE i > Len(text) -> <<>>
              [] i <= Len(text) /\ text[i] = Backslash ->
                    <<text[i + 1]>> \o value[i + 2]
              [] OTHER -> <<text[i]>> \o value[i + 1]
    IN  value[1]

\* The tokens a regular expression asks for: <<"lit", t>> or <<"any">>.
Regex(pattern) ==
    LET parse[i \in 1 .. Len(pattern) + 2] ==
            CASE i > Len(pattern) -> <<>>
              [] i <= Len(pattern) /\ pattern[i] = Backslash ->
                    <<<<"lit", pattern[i + 1]>>>> \o parse[i + 2]
              [] i <= Len(pattern) /\ pattern[i] = "." ->
                    <<<<"any">>>> \o parse[i + 1]
              [] OTHER -> <<<<"lit", pattern[i]>>>> \o parse[i + 1]
    IN  parse[1]

\* An anchored match (the pattern starts with ^ and ends with $).
Matches(pattern, name) ==
    LET re == Regex(pattern)
    IN  /\ Len(re) = Len(name)
        /\ \A i \in 1 .. Len(re) : re[i][1] = "any" \/ re[i][2] = name[i]

\* "pattern": "^tickets\\\\.buy$" and the name of the queue.
PolicyPattern ==
    <<"tickets", Backslash, Backslash, Backslash, Backslash, ".", "buy">>
QueueName == <<"tickets", ".", "buy">>

PolicyApplies == Matches(JsonValue(PolicyPattern), QueueName)
=============================================================================
