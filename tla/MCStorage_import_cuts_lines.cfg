SPECIFICATION MCSpec
CONSTANTS
 http = http
 ingress = ingress
 other = other
 Null = Null
 Daemons = {http, ingress, other}
 AutoSync = {http, ingress}
 Sync = sync
 MaxCrashes = 2
 Rows <- OldRows
 News <- MCNews
 Modes <- Cutting
 BatchSize = 2
CHECK_DEADLOCK FALSE
INVARIANT ImportsItsExports
