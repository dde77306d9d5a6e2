\* One shelf that is filled again and again: is the second refill alerted on?
SPECIFICATION LocalSpec
CONSTANTS
  Store = {shopA}
  Listing = {item}
  Sweeper = {w1}
  PassInterval = 1
  LocalAttempts = 2
  LocalRetry = 1
  MaxLocalDeaths = 0
  MaxLocalClock = 3
  NoShelf = NoShelf
PROPERTY
  RefillsAreAlerted
