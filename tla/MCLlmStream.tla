---- MODULE MCLlmStream ----
(* Two providers; a delimiter that, as the real one, ends as it begins.      *)
EXTENDS LlmStream

MCDelimiter == <<"#", "C", "#">>
MCLetters == {"#", "C", "a", "z", "0", "]"}
MCCodes == {"a", "z"}
MCDeltas == {<<"#">>, <<"C">>, <<"a">>, <<"#", "C">>, <<"C", "#">>,
             <<"z", "]">>, <<"0", "]">>, <<"a", "#", "C", "#", "a", "]">>}
====
