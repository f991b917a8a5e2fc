SPECIFICATION FairSpec
CONSTANTS
  MaxObjects = 2
PROPERTIES
  NoticeIsTrue
