\* Two media, one worker: one's retries must not hold up the other's.
CONSTANTS
  video = video
  image = image
  post = post
  w1 = w1
  None = None
  Media = {video, image}
  Posts = {post}
  PostOf <- OnePost
  Videos = {video}
  OldPosts = {}
  Workers = {w1}
  MaxAttempts = 2
  MaxCrashes = 0
SPECIFICATION AloneSpec
INVARIANTS
  TypeOK
PROPERTIES
  StoppedStaysStopped
  ArchivedIsKept
  QueueDrains
\* A drained queue that is left alone is at rest.
CHECK_DEADLOCK FALSE
