------------------------------ MODULE MCStream ------------------------------
EXTENDS Stream

CONSTANTS b1, b2

OneBrowser == {b1}
TwoBrowsers == {b1, b2}
TwoChannels == <<"members_changed", "loans_changed">>
\* One browser takes every channel, the other the later one only.
SubscribedApart == [c \in TwoBrowsers |-> IF c = b1 THEN ChannelSet ELSE {"loans_changed"}]
SubscribedOne == [c \in OneBrowser |-> {"members_changed"}]
=============================================================================
