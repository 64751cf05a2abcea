\* Three processes of two binaries; the second migration can be repeated, the first not.  Once all
\* serve and the bounded outages are over, nothing more happens here.
CONSTANTS
    old = old
    new = new
    twin = twin
    Processes = {old, new, twin}
    Migrations = {1, 2}
    Embeds <- MCEmbeds
    Ddl = {1}
    MaxTicks = 1
    MaxOutages = 1
    MaxCrashes = 1
SPECIFICATION Spec
INVARIANTS TypeOK AppliedOnce RecordedIffApplied ServesWhenReady
PROPERTIES AppliedInOrder EventuallyServes
CHECK_DEADLOCK FALSE
