\* One media item, two workers, two restarts, fair workers.
CONSTANTS
  video = video
  image = image
  post = post
  oldPost = oldPost
  w1 = w1
  w2 = w2
  None = None
  Media = {image}
  Posts = {post}
  PostOf <- OnePost
  Videos = {}
  OldPosts = {}
  Workers = {w1, w2}
  MaxAttempts = 3
  MaxCrashes = 2
SPECIFICATION FairSpec
INVARIANTS
  JobsMatchStatus
  OneDownloadPerMedia
PROPERTIES
  UserStopHolds
  FailedIsRetried
  ImplementsQueue
