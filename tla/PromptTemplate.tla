---------------------------- MODULE PromptTemplate --------------------------
(***************************************************************************)
(* The prompt of a job: the request, a JSON object with the message of the *)
(* user in it, is put into a template with String.prototype.replaceAll.    *)
(* Texts are sequences of characters and of the phrases of a template.     *)
(***************************************************************************)
EXTENDS SequencesExt, Naturals

CONSTANTS Characters,  \* what a user may type
          MaxLength,   \* bound: characters of a message
          UserPrompts  \* what prompts/user-prompt.md may contain

Placeholder == "{{request}}"

DefaultPrompt == <<"You will receive one JSON object.", Placeholder>>

VARIABLES message,   \* what the user has typed
          template,  \* the template in use, or <<>>
          prompt,    \* what the LLM is sent, or <<>>
          stage      \* "reading", "rendering", "rendered" or "failed"

vars == <<message, template, prompt, stage>>

Init ==
    /\ message \in UNION {[1..n -> Characters] : n \in 0..MaxLength}
    /\ template = <<>>
    /\ prompt = <<>>
    /\ stage = "reading"

(* user-prompt.md is optional, but must be readable if it is there.        *)
ReadOptionalTemplate ==
    /\ stage = "reading"
    /\ \/ template' \in UserPrompts \cup {DefaultPrompt} /\ stage' = "rendering"
       \/ stage' = "failed" /\ UNCHANGED template
    /\ UNCHANGED <<message, prompt>>

(* JSON.stringify leaves these characters as they are.                     *)
RequestSection == <<"{ message: ">> \o message \o <<" }">>

(* What $c in a replacement stands for (ECMA-262, GetSubstitution).        *)
Pattern(before, after) ==
    ("$" :> <<"$">>) @@ ("&" :> <<Placeholder>>) @@ ("`" :> before) @@ ("'" :> after)

(* The text that replaces a placeholder between before and after.          *)
Substitution(value, before, after) ==
    LET pattern == Pattern(before, after)
        IsPattern(i) == /\ i < Len(value) /\ value[i] = "$"
                        /\ value[i + 1] \in DOMAIN pattern
        from[i \in 1..(Len(value) + 1)] ==
            IF i > Len(value) THEN <<>>
            ELSE IF IsPattern(i) THEN pattern[value[i + 1]] \o from[i + 2]
            ELSE <<value[i]>> \o from[i + 1]
    IN from[1]

ReplacePlaceholder(text, value) ==
    FlattenSeq(
        [i \in 1..Len(text) |->
           IF text[i] = Placeholder
           THEN Substitution(value, SubSeq(text, 1, i - 1), SubSeq(text, i + 1, Len(text)))
           ELSE <<text[i]>>])

RenderTemplate ==
    /\ stage = "rendering"
    /\ prompt' = ReplacePlaceholder(template, RequestSection)
    /\ stage' = "rendered"
    /\ UNCHANGED <<message, template>>

Next == ReadOptionalTemplate \/ RenderTemplate

Spec == Init /\ [][Next]_vars

-----------------------------------------------------------------------------
(* docs/contracts/assistant-worker-system-prompt.md: "This structure gives *)
(* the LLM [...] the exact current request that needs an answer now".      *)
(* The prompt has the request in it, whatever the user has typed:          *)
RequestIsExact ==
    stage = "rendered" =>
        \E i \in 0..(Len(prompt) - Len(RequestSection)) :
            SubSeq(prompt, i + 1, i + Len(RequestSection)) = RequestSection
=============================================================================
