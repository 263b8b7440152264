\* The remote channel adds and removes sub channels while the VM handles
\* the callbacks: two ids, three sub channel instances in all.
CONSTANTS
    ch1 = ch1
    ch2 = ch2
    NULL = NULL
    ChannelIds <- MCChannelIds
    MaxSubChannels = 3

SPECIFICATION Spec

INVARIANT SubVMsMatchChannels
