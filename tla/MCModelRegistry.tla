-------------------------- MODULE MCModelRegistry --------------------------
EXTENDS ModelRegistry

CONSTANTS console, command

\* One console and one command at a time beside it.
AllNames == {"claude", "default", "mine"}
Alphabet == [claude |-> 1, default |-> 2, mine |-> 3]
AllRefs == {"OPENAI_API_KEY", "ANTHROPIC_API_KEY"}

OpenAI == [provider |-> "openai", reference |-> "OPENAI_API_KEY", enabled |-> "on"]
ClaudeOff == [provider |-> "anthropic", reference |-> "ANTHROPIC_API_KEY", enabled |-> "off"]
Claude == [ClaudeOff EXCEPT !.enabled = "on"]
Typo == [OpenAI EXCEPT !.provider = "opnai"]

\* Shipped: an OpenAI profile that is active and a disabled one.
Shipped == [default |-> OpenAI, claude |-> ClaudeOff]
DeepSeek == [active |-> "default", profiles |-> [default |-> [OpenAI EXCEPT !.provider = "deepseek"]]]
OnOffer == {Claude, Typo}

\* Files from other machines: a new name, a known one under another definition,
\* an active name that is not there, and a profile of no known provider.
Received == {[active |-> "mine", profiles |-> [mine |-> OpenAI]],
             [active |-> "mine", profiles |-> [claude |-> Claude]],
             [active |-> "default", profiles |-> [mine |-> Typo]]}
=============================================================================
